---- MODULE Spec2Model ----
(***************************************************************************)
(* FBSInteractor.bookSlot (src/src/services/FBSInteractorService.ts): one  *)
(* booking attempt driven through the UTown FBS portal with puppeteer.     *)
(*                                                                         *)
(* The attempt is a straight-line async function.  Its statements inside   *)
(* the try block are listed in Prog, one row per statement, and ip is the  *)
(* index of the statement about to run.  The portal and the browser are    *)
(* the environment: whether an element is there, whether a wait times out, *)
(* what the page shows after the form was submitted.                       *)
(*                                                                         *)
(* Strings are modelled by their parts.  A date-time string is the         *)
(* sequence of its blank-separated fields, a date the sequence of its      *)
(* dash-separated fields, a month or day the sequence of its digits, a     *)
(* time of day a one-element sequence.  The empty sequence stands for both *)
(* the empty string and undefined: the code only tests them with `!x`.     *)
(* A text of the portal is a sequence of tokens: WS is one whitespace      *)
(* character, S30 / ELS / SLOT are the three substrings the code looks     *)
(* for, X is any other text.                                               *)
(*                                                                         *)
(* A frame of the page is a number that tells its instances apart, 0 when  *)
(* the page has no such frame; a Frame local of bookSlot holds the number  *)
(* of the frame it was resolved to.                                        *)
(*                                                                         *)
(* Spec is one call of bookSlot from its entry to the settling of its      *)
(* promise, followed by the admin_bookfbs handler of src/src/book.ts that  *)
(* awaits it.  SpecDate is the entry of bookSlot alone, for every valid    *)
(* date: the split of the date and the stripping of month and day.         *)
(* SpecVenue is the entry of bookSlot for every number passed as           *)
(* locationID.  SpecClassify is the classification of the error element's  *)
(* text, for every text.  SpecConc is several calls of bookSlot whose      *)
(* steps interleave, each with its browser.  SpecEndDate is one call for   *)
(* every date part of endTime.  SpecAdmin is the admin_bookfbs handler up  *)
(* to its call of bookSlot.                                                *)
(*                                                                         *)
(* SpecCalendar is the BookingCalendar of src/src/book.ts in one chat: the *)
(* session object, the callback queries being handled, each giving way at  *)
(* its awaits, and onBookingDataReady.  SpecSerial is the same chat with   *)
(* the queries handled one after another.  SpecSheets is the hash          *)
(* bookkeeping of GoogleSheetsService.updateVenueBookings, every awaited   *)
(* call of which may reject; SpecTwice is the same with calls that return. *)
(* SpecSync is the retrying updateVenueDataInSheets of unnamed/part_003,   *)
(* SpecSyncFair the same with every await settling.                        *)
(***************************************************************************)
EXTENDS Integers, Sequences, FiniteSets, TLC

\* ---------------------------------------------------------------- bounds

\* Times of day a request can name: 1..MaxTime.
MaxTime == 3

\* Years the dates of the date decomposition range over: 2024 onwards.
MaxYears == 2

\* Whitespace characters the portal may put on each side of a message.
MaxPad == 1

\* Values Date.now() can take when the screenshot is named.
MaxClock == 2

\* How far below 1 and above the table's length a locationID may lie.
MaxBeyond == 2

\* Pieces (a known message, other text, a blank) in the text of the error
\* element when the portal is let to show any text at all.
MaxText == 3

\* Calls of bookSlot in flight at once.
MaxAttempts == 2

\* Steps one call of several takes on its page between goto and return.
MaxActs == 2

\* ------------------------------------------------------- static tables

\* FBSInteractor.VENUES, in the order of the array literal; the tokens are the
\* first group of each GUID.
VENUES ==
  <<
    [id |-> 1, name |-> "SR1", facil_type_value |-> "b0b1df78", option_value |-> <<"4ada4203">>],
    [id |-> 2, name |-> "SR2", facil_type_value |-> "b0b1df78", option_value |-> <<"c353d4b6">>],
    [id |-> 3, name |-> "SR3", facil_type_value |-> "b0b1df78", option_value |-> <<"c9c6f9d5">>],
    [id |-> 4, name |-> "SR4", facil_type_value |-> "b0b1df78", option_value |-> <<"e0568195">>],
    [id |-> 5, name |-> "SR5", facil_type_value |-> "b0b1df78", option_value |-> <<"8f070a07">>],
    [id |-> 6, name |-> "TR1", facil_type_value |-> "b0b1df78", option_value |-> <<"c27c5808">>],
    [id |-> 7, name |-> "TR2", facil_type_value |-> "b0b1df78", option_value |-> <<"3fa27ba4">>],
    [id |-> 8, name |-> "TR3", facil_type_value |-> "b0b1df78", option_value |-> <<"635ed65a">>],
    [id |-> 9, name |-> "TR4", facil_type_value |-> "b0b1df78", option_value |-> <<"8839f7ab">>],
    [id |-> 10, name |-> "Gym", facil_type_value |-> "b0b1df78", option_value |-> <<"32ecb2ef">>],
    [id |-> 11, name |-> "MPSH", facil_type_value |-> "775b9829", option_value |-> <<"c79604f1">>]
  >>

NumVenues == Len(VENUES)

VenueIds == 1..NumVenues

\* VenueAt reading VENUES[locationID].
VenueAtZeroBased(locationID, half) ==
    IF half = 0 /\ locationID \in 0..(Len(VENUES) - 1)
    THEN <<VENUES[locationID + 1]>>
    ELSE <<>>

\* VENUES[locationID - 1] for the number locationID + half/2: the element at
\* that 0-based index, or <<>> (undefined) when the index is not one of the
\* array's, a fraction included.
VenueAt(locationID, half) ==
    IF half = 0 /\ (locationID - 1) \in 0..(Len(VENUES) - 1)
    THEN <<VENUES[(locationID - 1) + 1]>>
    ELSE <<>>

\* FBSInteractor.USAGE_TYPES: key -> token; <<>> (undefined) for any other key.
UsageTypeKeys == {"Academic", "Maintenance", "Meeting", "Student Activities"}

UsageTypes(key) ==
    CASE key = "Academic" -> <<"b6ac372c">>
      [] key = "Maintenance" -> <<"3d1cd98b">>
      [] key = "Meeting" -> <<"6802dca4">>
      [] key = "Student Activities" -> <<"d946c992">>
      [] OTHER -> <<>>

\* ------------------------------------------------------------- strings

\* Destructuring: const [a, b] = s.split(sep) gives undefined past the end.
Field(fields, i) == IF i <= Len(fields) THEN fields[i] ELSE <<>>

\* !x for a string or undefined.
Falsy(x) == x = <<>>

\* StripLeadingZeros with every zero removed, leading or not.
StripAllZeros(s) == SelectSeq(s, LAMBDA d : d # 0)

RECURSIVE StripLeadingZeros(_)
\* s.replace(/^0+/, '') on a digit string.
StripLeadingZeros(s) ==
    IF s # <<>> /\ Head(s) = 0 THEN StripLeadingZeros(Tail(s)) ELSE s

WS == " "

RECURSIVE TrimLeft(_)
TrimLeft(s) == IF s # <<>> /\ Head(s) = WS THEN TrimLeft(Tail(s)) ELSE s

RECURSIVE TrimRight(_)
TrimRight(s) ==
    IF s # <<>> /\ s[Len(s)] = WS THEN TrimRight(SubSeq(s, 1, Len(s) - 1)) ELSE s

\* String.prototype.trim
Trim(s) == TrimRight(TrimLeft(s))

\* s.includes(tok) for one of the substrings the code looks for.
Includes(s, tok) == \E i \in 1..Len(s) : s[i] = tok

\* ------------------------------------------------------------ requests

\* "YYYY-MM-DD" split on "-": <<year, month, day>>, month and day as digits.
D1 == << <<2024>>, <<0, 9>>, <<0, 7>> >>

D2 == << <<2024>>, <<1, 2>>, <<2, 5>> >>

Dates == {D1, D2}

\* "2024-02-30": well-formed for the checks of lines 69 and 74, yet no day of
\* the calendar.
D3 == << <<2024>>, <<0, 2>>, <<3, 0>> >>

Times == 1..MaxTime

\* "YYYY-MM-DD HH:mm:ss" split on " ": <<date, time>>.
DT(d, t) == <<d, <<t>>>>

\* The number a digit string denotes.
Num(s) == IF Len(s) = 2 THEN 10 * s[1] + s[2] ELSE IF Len(s) = 1 THEN s[1] ELSE 0

DateNum(d) == d[1][1] * 10000 + Num(d[2]) * 100 + Num(d[3])

\* endDateTime <= startDateTime, comparing the full date and time of two
\* well-formed date-time strings.
EndNotAfterStart(s, e) ==
    IF Len(Field(e, 1)) # 3 \/ Len(Field(s, 1)) # 3
    THEN FALSE
    ELSE \/ DateNum(e[1]) < DateNum(s[1])
         \/ DateNum(e[1]) = DateNum(s[1]) /\ e[2][1] <= s[2][1]

\* The arguments of one call.  locationID is a number: locationID is its
\* whole part and locationHalf its fraction in halves, 0 for an integer.
BaseRequest ==
    [startTime |-> DT(D2, 1), endTime |-> DT(D2, 2),
     locationID |-> 10, locationHalf |-> 0,
     usageType |-> "Student Activities", doorAccess |-> TRUE, aircon |-> FALSE,
     purpose |-> "Gym Booking - Test User", userCount |-> 2,
     credentials |-> [utownfbs_username |-> "user", utownfbs_password |-> "secret"]]

\* Requests that differ in their dates and times.
TimeRequests ==
    {[BaseRequest EXCEPT !.startTime = DT(sd, st), !.endTime = DT(ed, et)] :
        sd \in Dates, st \in Times, ed \in Dates, et \in Times}

\* Requests that differ in the two checkboxes.
CheckboxRequests ==
    {[BaseRequest EXCEPT !.doorAccess = d, !.aircon = a] : d \in BOOLEAN, a \in BOOLEAN}

\* Requests with another venue or usage type, valid or not.
TableRequests ==
    {[BaseRequest EXCEPT !.locationID = l] : l \in {-1, 0, 1, 11, 12}}
    \cup {[BaseRequest EXCEPT !.locationHalf = 1]}
    \cup {[BaseRequest EXCEPT !.usageType = u] : u \in {"", "Academic", "Bogus"}}

\* Requests whose startTime or endTime is not "date time", or whose date is
\* not "y-m-d".  " 02:00:00" splits into an empty date and a time.
MalformedRequests ==
    {[BaseRequest EXCEPT !.startTime = s] :
        s \in {<<D2>>, << <<>>, <<1>> >>, << << <<2024>>, <<1, 2>> >>, <<1>> >>,
               << << <<2024>>, <<1, 2>>, <<>> >>, <<1>> >>}}
    \cup {[BaseRequest EXCEPT !.endTime = e] :
            e \in {<<D2>>, <<D2, <<>>>>, << <<>>, <<2>> >>}}

\* Requests whose date has the right shape and names no day of its month.
NoSuchDayRequests ==
    {[BaseRequest EXCEPT !.startTime = DT(D3, 1), !.endTime = DT(D3, t)] : t \in 2..MaxTime}

Requests ==
    TimeRequests \cup CheckboxRequests \cup TableRequests \cup MalformedRequests
        \cup NoSuchDayRequests

\* ---------------------------------------------- bookSlot, lines 66 to 98

\* SentinelDate with the date of a booking in its place.
SentinelRealDate == "2024/12/25"

SentinelDate == "1800/01/01"

NoLocals ==
    [date |-> <<>>, time |-> <<>>, time_end |-> <<>>,
     year |-> <<>>, month |-> <<>>, day |-> <<>>,
     start_time_form_value |-> <<>>, end_time_form_value |-> <<>>,
     month_parsed |-> <<>>, day_parsed |-> <<>>,
     facil_type_value |-> "", location_value |-> <<>>, usageTypeString |-> <<>>]

\* The local constants bookSlot computes from its arguments before the try.
Locals(r) ==
    LET date == Field(r.startTime, 1)
        time == Field(r.startTime, 2)
        time_end == Field(r.endTime, 2)
        year == Field(date, 1)
        month == Field(date, 2)
        day == Field(date, 3)
        venue == VenueAt(r.locationID, r.locationHalf)
    IN  [date |-> date, time |-> time, time_end |-> time_end,
         year |-> year, month |-> month, day |-> day,
         start_time_form_value |-> <<SentinelDate>> \o time,
         end_time_form_value |-> <<SentinelDate>> \o time_end,
         month_parsed |-> StripLeadingZeros(month),
         day_parsed |-> StripLeadingZeros(day),
         facil_type_value |-> IF venue = <<>> THEN "" ELSE venue[1].facil_type_value,
         location_value |-> IF venue = <<>> THEN <<>> ELSE venue[1].option_value,
         usageTypeString |-> UsageTypes(r.usageType)]

\* Validate without the check of line 96: an unknown usageType is left for
\* the portal to refuse.
ValidateTrustingUsageType(r) ==
    LET l == Locals(r)
    IN  IF Falsy(l.date) \/ Falsy(l.time) \/ Falsy(l.time_end)
        THEN "Invalid date/time format for startTime or endTime."
        ELSE IF Falsy(l.year) \/ Falsy(l.month) \/ Falsy(l.day)
        THEN "Invalid date format. Expected YYYY-MM-DD."
        ELSE IF r.usageType = ""
        THEN "Usage Type is not provided"
        ELSE IF VenueAt(r.locationID, r.locationHalf) = <<>>
        THEN "Venue not found for provided locationID."
        ELSE ""

\* The message of the Error the checks before the try throw, "" when all pass.
Validate(r) ==
    LET l == Locals(r)
    IN  IF Falsy(l.date) \/ Falsy(l.time) \/ Falsy(l.time_end)
        THEN "Invalid date/time format for startTime or endTime."
        ELSE IF Falsy(l.year) \/ Falsy(l.month) \/ Falsy(l.day)
        THEN "Invalid date format. Expected YYYY-MM-DD."
        ELSE IF r.usageType = ""
        THEN "Usage Type is not provided"
        ELSE IF VenueAt(r.locationID, r.locationHalf) = <<>>
        THEN "Venue not found for provided locationID."
        ELSE IF Falsy(l.usageTypeString)
        THEN "Invalid usageType provided."
        ELSE ""

\* --------------------------------------- bookSlot, the try block's steps

S(op, what, line, msg, stage) ==
    [op |-> op, what |-> what, line |-> line, msg |-> msg, stage |-> stage]

\* One row per statement of the try block, in program order: the kind of
\* statement, a name for it, its first line, the message of the
\* ExpectedElementNotFound it throws when its element is missing, its stage.
Prog ==
  <<
    S("launch", "launch", 103, "", "launch"),
    S("await", "newPage", 109, "", "launch"),
    S("await", "goto login", 114, "", "launch"),
    S("wait", "StudentLoginButton", 117, "", "login"),
    S("await", "click StudentLoginButton", 118, "", "login"),
    S("wait", "userNameInput", 121, "", "login"),
    S("await", "type username", 122, "", "login"),
    S("await", "type password", 123, "", "login"),
    S("await", "click submitButton", 124, "", "login"),
    S("sleep", "sleep 20000", 127, "", "login"),
    S("frame", "searchFrame", 130, "Search Frame not found.", "search"),
    S("query", "facilTypeSelect", 137, "Facility type dropdown not found.", "search"),
    S("await", "select facil_type_value", 139, "", "search"),
    S("sleep", "sleep 2000 a", 140, "", "search"),
    S("query", "facilitySelect", 143, "Facility dropdown not found.", "search"),
    S("await", "select location_value", 145, "", "search"),
    S("sleep", "sleep 5000 a", 146, "", "search"),
    S("query", "startDateTable", 149, "Start date table not found.", "search"),
    S("query", "startDateInput", 151, "Start date input not found.", "search"),
    S("await", "click startDateInput", 153, "", "search"),
    S("wait", "calendarDiv start", 154, "", "search"),
    S("frame", "calendarFrameStart", 156, "Calendar Frame (start) not found.", "search"),
    S("query2", "monthYearSelectStart", 161, "Month/Year selects not found in calendar (start).", "search"),
    S("await", "select month start", 167, "", "search"),
    S("await", "select year start", 168, "", "search"),
    S("wait", "day7 start", 170, "", "search"),
    S("calclick", "click day start", 171, "", "search"),
    S("sleep", "sleep 5000 b", 180, "", "search"),
    S("query", "endDateInput", 183, "End date input not found.", "search"),
    S("await", "click endDateInput", 185, "", "search"),
    S("wait", "calendarDiv end", 186, "", "search"),
    S("frame", "calendarFrameEnd", 188, "Calendar Frame (end) not found.", "search"),
    S("query2", "monthYearSelectEnd", 192, "Month/Year selects not found in calendar (end).", "search"),
    S("await", "select month end", 198, "", "search"),
    S("await", "select year end", 199, "", "search"),
    S("wait", "day7 end", 201, "", "search"),
    S("calclick", "click day end", 202, "", "search"),
    S("sleep", "sleep 3000", 211, "", "search"),
    S("query", "viewAvailabilityBtn", 214, "View Availability button not found.", "search"),
    S("await", "click viewAvailability", 216, "", "search"),
    S("sleep", "sleep 5000 c", 217, "", "search"),
    S("frame", "bookingCalFrame", 220, "Booking Calendar Frame not found.", "search"),
    S("wait", "divAvailable", 225, "", "slot"),
    S("await", "click divAvailable", 227, "", "slot"),
    S("wait", "createWindow", 230, "", "slot"),
    S("query", "iframeBookingElement", 233, "Booking Frame (iframe) not found.", "slot"),
    S("query", "bookingFrame", 236, "Booking Frame content not accessible.", "slot"),
    S("wait", "bookingFrame navigation", 239, "", "slot"),
    S("query", "usageTypeSelect", 242, "Usage Type dropdown not found.", "form"),
    S("await", "select usageType", 244, "", "form"),
    S("sleep", "sleep 2000 b", 245, "", "form"),
    S("query2", "fromToSelect", 247, "Time selection dropdowns not found.", "form"),
    S("await", "select from", 250, "", "form"),
    S("await", "select to", 251, "", "form"),
    S("sleep", "sleep 2000 c", 252, "", "form"),
    S("query", "attendeesInput", 254, "ExpectedNoAttendees input not found.", "form"),
    S("await", "click attendees", 256, "", "form"),
    S("await", "type attendees", 257, "", "form"),
    S("query", "chargeGroupSelect", 259, "ChargeGroup dropdown not found.", "form"),
    S("await", "select chargeGroup", 261, "", "form"),
    S("query", "purposeTextarea", 263, "Purpose textarea not found.", "form"),
    S("await", "click purpose", 265, "", "form"),
    S("await", "type purpose", 266, "", "form"),
    S("sleep", "sleep 2000 d", 267, "", "form"),
    S("query", "doorAccessCheckbox", 270, "Door Access checkbox not found.", "form"),
    S("checked", "read doorAccess", 272, "", "form"),
    S("toggle", "click doorAccess", 273, "", "form"),
    S("query", "airconCheckbox", 278, "Aircon checkbox not found.", "form"),
    S("checked", "read aircon", 280, "", "form"),
    S("toggle", "click aircon", 281, "", "form"),
    S("sleep", "sleep 2000 e", 285, "", "form"),
    S("query", "createBookingBtn", 288, "Create Booking button not found.", "submit"),
    S("submit", "click createBooking", 290, "", "submit"),
    S("sleep", "sleep 15000", 291, "", "submit"),
    S("probe", "errorMsgElement", 294, "", "evaluate"),
    S("classify", "read errorMessage", 296, "", "evaluate"),
    S("wait", "BookingReferenceNumber", 311, "", "evaluate"),
    S("readref", "read bookingId", 314, "", "evaluate"),
    S("screenshot", "screenshot", 326, "", "evaluate"),
    S("return", "return bookingId", 332, "", "evaluate")
  >>

NumSteps == Len(Prog)

\* The row of each name.
RowOf ==
    [w \in {Prog[i].what : i \in 1..NumSteps} |->
        CHOOSE i \in 1..NumSteps : Prog[i].what = w]

\* The row with this name.
StepOf(what) == RowOf[what]

\* Statements that await the browser and can therefore reject.
AwaitedOps ==
    {"await", "wait", "query", "query2", "calclick", "checked", "submit",
     "probe", "classify", "readref", "screenshot"}

\* ------------------------------------------------------------ the portal

\* The portal is not part of the repository.  What follows is what the spec
\* and the code's own selectors and messages say about it.

\* A booking the portal holds: a window [from, to) on a date.
Window(d, f, t) == [date |-> d, from |-> f, to |-> t]

Overlaps(w, h) ==
    /\ w.date = h.date
    /\ w.from < w.to
    /\ w.from < h.to
    /\ h.from < w.to

\* The bookings other users hold when the attempt starts.
HeldInits == {{}} \cup {{Window(D1, 1, t)} : t \in 2..MaxTime}

\* The bookings held that can bear on a call: HeldInits is all on the day
\* D1, and a booking on another day than the one the call asks for changes
\* nothing the call sees.
HeldInitsFor(r) == IF Field(r.startTime, 1) = D1 THEN HeldInits ELSE {{}}

\* The calendar widget re-pads month and day: the portal's ids are YYYYMMDD.
Pad2(s) == IF Len(s) = 1 THEN <<0>> \o s ELSE s

PortalId(d) == d[1] \o Pad2(d[2]) \o Pad2(d[3])

DaysIn(month) == IF Num(month) \in {4, 6, 9, 11} THEN 30 ELSE IF Num(month) = 2 THEN 28 ELSE 31

\* The calendar shows one cell per day of the selected month.
CellExists(month, day) == Num(month) \in 1..12 /\ Num(day) \in 1..DaysIn(month)

\* Some unit interval of the day is held by nobody.
DayHasFree(d, bookings) ==
    \E t \in 1..(MaxTime - 1) : \A h \in bookings : ~Overlaps(Window(d, t, t + 1), h)

\* The ids (date prefixes) of the div.divAvailable elements the results frame
\* shows for a search from startDate to endDate.
AvailableIds(f, bookings) ==
    IF f.facility = <<>> \/ f.startDate = <<>> \/ f.endDate = <<>>
    THEN {}
    ELSE {PortalId(d) : d \in {x \in Dates :
              /\ DateNum(f.startDate) <= DateNum(x)
              /\ DateNum(x) <= DateNum(f.endDate)
              /\ DayHasFree(x, bookings)}}

\* The window the submitted form asks for.
FormWindow(f) == Window(f.bookDate, f.from[2], f.to[2])

\* What the portal may answer to a submitted form.
Verdicts(f, bookings) ==
    LET w == FormWindow(f)
        late == w.to <= w.from
        taken == \E h \in bookings : Overlaps(w, h)
    IN  {"toosoon", "other", "blank", "silent", "warned"}
        \cup (IF late THEN {"endnotlater"} ELSE {})
        \cup (IF taken THEN {"taken", "toosoon+taken"} ELSE {})
        \cup (IF ~late /\ ~taken THEN {"accepted"} ELSE {})

S30 == "Start time must be 30 minutes before currenttime"

ELS == "End time must be later than start time"

SLOT == "The specified slot is booked by another user"

X == "other text"

Pads == {[i \in 1..n |-> WS] : n \in 0..MaxPad}

Padded(cores) == {l \o c \o r : l \in Pads, c \in cores, r \in Pads}

\* Every text made of at most MaxText pieces.
AnyTexts == UNION {[1..n -> {S30, ELS, SLOT, X, WS}] : n \in 0..MaxText}

\* The texts span#labelMessage1 may hold under a verdict.  null is a
\* textContent of null.  Under "anytext" the element holds any text.
RawTexts(verdict) ==
    CASE verdict = "endnotlater" -> {[null |-> FALSE, s |-> s] : s \in Padded({<<ELS>>})}
      [] verdict = "toosoon" -> {[null |-> FALSE, s |-> s] : s \in Padded({<<S30>>})}
      [] verdict = "taken" -> {[null |-> FALSE, s |-> s] : s \in Padded({<<SLOT>>})}
      [] verdict = "toosoon+taken" ->
            {[null |-> FALSE, s |-> s] : s \in Padded({<<SLOT, WS, S30>>})}
      [] verdict = "other" ->
            {[null |-> FALSE, s |-> s] : s \in Padded({<<X>>, <<X, WS, X>>})}
      [] verdict = "blank" ->
            {[null |-> TRUE, s |-> <<>>]} \cup {[null |-> FALSE, s |-> s] : s \in Pads}
      [] verdict = "warned" -> {[null |-> FALSE, s |-> s] : s \in Padded({<<X>>})}
      [] verdict = "anytext" ->
            {[null |-> TRUE, s |-> <<>>]} \cup {[null |-> FALSE, s |-> s] : s \in AnyTexts}
      [] OTHER -> {}

ErrorShown(verdict) == RawTexts(verdict) # {}

REF == "FBS-REF"

\* The td cells of table#BookingReferenceNumber under a verdict; the empty
\* sequence when the table is not there.
TableCells(verdict) ==
    CASE verdict = "accepted" -> {<<<<X>>, s>> : s \in Padded({<<REF>>})}
      [] verdict = "silent" -> {<<>>, <<<<X>>>>} \cup {<<<<X>>, s>> : s \in Pads}
      [] verdict = "warned" -> {<<<<X>>, <<REF>>>>}
      [] OTHER -> {<<>>}

\* ---------------------------------------------------------------- state

VARIABLES
    pc,       \* "idle", "body" (inside the try), "finally", "done"
    ip,       \* the row of Prog about to run
    req,      \* the arguments of the call
    loc,      \* the constants computed from the arguments
    mem,      \* what the attempt has read from the page
    browser,  \* the local `browser`: "null", "open", "closed"
    form,     \* what the portal's pages hold: search form, booking form
    held,     \* the bookings the portal held before the attempt
    page,     \* the portal's answer to the submitted form
    pending,  \* the completion on its way out of the try: a throw or a return
    outcome,  \* what the caller's await sees
    trace,    \* the rows of Prog executed, in order
    disk,     \* the screenshot files written
    conc,     \* several calls of bookSlot at once: their locals, the browsers
    handler,  \* the bot handler that awaits the call: its position, its chat
    cmd,      \* an admin_bookfbs command on its way to the call of bookSlot
    cal,      \* the BookingCalendar: its session, the bookings API
    sheets,   \* the spreadsheet of VenueDataService and its stored hashes
    sync      \* one run of updateVenueDataInSheets: its fetches, its result

\* The state of the other parts of the bot: the command handler before the
\* call, the calendar, the spreadsheet service.
rest == <<cmd, cal, sheets, sync>>

\* The state outside the one call that pc, ip and the rest describe.
callers == <<conc, handler, rest>>

\* The state of the one call of bookSlot.
call == <<pc, ip, req, loc, mem, browser, form, held, page, pending, outcome, trace, disk>>

vars ==
    <<pc, ip, req, loc, mem, browser, form, held, page, pending, outcome, trace, disk,
      callers>>

\* undefined, for a value the caller reads off the result
Undefined == <<>>

NoValue == [bookingId |-> Undefined, confirmationScreenshot |-> Undefined]

NoCompletion == [kind |-> "none", msg |-> <<>>, value |-> NoValue]

\* A thrown error: its class (Error.name) and its message.
Err(kind, msg) == [kind |-> kind, msg |-> msg, value |-> NoValue]

\* What the caller can read off the value of `return bookingId`: the string
\* itself; a string has no confirmationScreenshot property.
ReturnValue(bookingId, screenshotPath) ==
    [bookingId |-> bookingId, confirmationScreenshot |-> Undefined]

Returned(value) == [kind |-> "Returned", msg |-> <<>>, value |-> value]

\* `booking-confirmation-${Date.now()}.png`
ScreenshotPath(now) == <<"booking-confirmation-", now, ".png">>

NoForm ==
    [username |-> "", password |-> "", facilType |-> "", facility |-> <<>>,
     editing |-> "", calMonth |-> <<>>, calYear |-> <<>>,
     searchFrame |-> 0, dialogs |-> 0, calendarFrame |-> 0,
     resultsFrame |-> 0, bookingFrame |-> 0,
     startDate |-> <<>>, endDate |-> <<>>, searched |-> FALSE, bookDate |-> <<>>,
     usage |-> <<>>, from |-> <<>>, to |-> <<>>, attendees |-> 0,
     chargeGroup |-> "", purpose |-> "", door |-> FALSE, aircon |-> FALSE]

NoPage == [verdict |-> "none", created |-> {}]

NoMem ==
    [searchFrame |-> 0, calendarFrameStart |-> 0, calendarFrameEnd |-> 0,
     bookingCalFrame |-> 0, bookingFrame |-> 0, missing |-> "",
     isDoorAccessChecked |-> FALSE, isAirconChecked |-> FALSE,
     errorMsgElement |-> FALSE, raw |-> [null |-> TRUE, s |-> <<>>],
     errorMessage |-> <<>>, cells |-> <<>>, bookingId |-> <<>>,
     screenshotPath |-> <<>>]

\* The calls of bookSlot that the bots have in flight at once.
Attempts == 1..MaxAttempts

\* No call has started; puppeteer has launched nothing.
NoConc ==
    [at |-> [a \in Attempts |-> "idle"],
     browser |-> [a \in Attempts |-> 0],
     page |-> [a \in Attempts |-> 0],
     acts |-> [a \in Attempts |-> 0],
     launchedBy |-> <<>>, pageOf |-> <<>>, open |-> {},
     acted |-> {}, closedBy |-> {}]

\* The admin_bookfbs handler awaits bookSlot; it has put nothing in the chat.
NoHandler == [at |-> "awaiting", reference |-> Undefined, photos |-> {}, failure |-> <<>>]

\* No command has come in.
NoCmd == [at |-> "none"]

\* No calendar session.
NoCal == [at |-> "none"]

\* No spreadsheet.
NoSheets == [at |-> "none"]

\* No run of updateVenueDataInSheets.
NoSync == [at |-> "none"]

\* The other parts of the bot take no part.
RestIdle ==
    /\ cmd = NoCmd
    /\ cal = NoCal
    /\ sheets = NoSheets
    /\ sync = NoSync

Init ==
    /\ pc = "idle"
    /\ ip = 0
    /\ req \in Requests
    /\ loc = NoLocals
    /\ mem = NoMem
    /\ browser = "null"
    /\ form = NoForm
    /\ held \in HeldInitsFor(req)
    /\ page = NoPage
    /\ pending = NoCompletion
    /\ outcome = NoCompletion
    /\ trace = <<>>
    /\ disk = {}
    /\ conc = NoConc
    /\ handler = NoHandler
    /\ RestIdle

\* -------------------------------------------------------------- frames

\* The locals of bookSlot that hold a Frame.
FrameHandles ==
    {"searchFrame", "calendarFrameStart", "calendarFrameEnd", "bookingCalFrame",
     "bookingFrame"}

\* The frame handle a statement goes through: the frame it is called on, or
\* the frame that gave the element handle it is called on; "page" otherwise.
Via(what) ==
    CASE what \in {"facilTypeSelect", "select facil_type_value", "facilitySelect",
                   "select location_value", "startDateTable", "startDateInput",
                   "click startDateInput", "calendarDiv start", "calendarFrameStart",
                   "endDateInput", "click endDateInput", "calendarDiv end",
                   "calendarFrameEnd", "viewAvailabilityBtn", "click viewAvailability"}
            -> "searchFrame"
      [] what \in {"monthYearSelectStart", "select month start", "select year start",
                   "day7 start", "click day start"}
            -> "calendarFrameStart"
      [] what \in {"monthYearSelectEnd", "select month end", "select year end",
                   "day7 end", "click day end"}
            -> "calendarFrameEnd"
      [] what \in {"divAvailable", "click divAvailable", "createWindow",
                   "iframeBookingElement", "bookingFrame"}
            -> "bookingCalFrame"
      [] what \in {"bookingFrame navigation", "usageTypeSelect", "select usageType",
                   "fromToSelect", "select from", "select to", "attendeesInput",
                   "click attendees", "type attendees", "chargeGroupSelect",
                   "select chargeGroup", "purposeTextarea", "click purpose",
                   "type purpose", "doorAccessCheckbox", "read doorAccess",
                   "click doorAccess", "airconCheckbox", "read aircon", "click aircon",
                   "createBookingBtn", "click createBooking", "errorMsgElement",
                   "read errorMessage", "BookingReferenceNumber", "read bookingId"}
            -> "bookingFrame"
      [] OTHER -> "page"

\* The frame of the portal's page a handle is looked up as: 0 when the page
\* has no such frame, else the number that tells its instances apart.
CurrentFrame(handle, f) ==
    CASE handle = "searchFrame" -> f.searchFrame
      [] handle \in {"calendarFrameStart", "calendarFrameEnd"} -> f.calendarFrame
      [] handle = "bookingCalFrame" -> f.resultsFrame
      [] handle = "bookingFrame" -> f.bookingFrame
      [] OTHER -> 0

\* The frames the page has after a click that makes the portal load or open
\* something: the search module after the login, a calendar dialog with a
\* frame of its own each time a date input is clicked, the results after the
\* search, the booking form with the slot's window.  A frame may fail to come.
FrameTrees(what, f) ==
    CASE what = "click submitButton" -> {[f EXCEPT !.searchFrame = n] : n \in {0, 1}}
      [] what \in {"click startDateInput", "click endDateInput"} ->
            {[f EXCEPT !.dialogs = f.dialogs + 1, !.calendarFrame = n] :
                n \in {0, f.dialogs + 1}}
      [] what = "click viewAvailability" -> {[f EXCEPT !.resultsFrame = n] : n \in {0, 1}}
      [] what = "click divAvailable" -> {[f EXCEPT !.bookingFrame = 1]}
      [] OTHER -> {f}

\* The elements or frames a lookup statement tests with `!x` before it throws:
\* two where two handles are tested together (lines 163, 194 and 249).
Artifacts(what) ==
    CASE what = "monthYearSelectStart" -> {"monthSelectStart", "yearSelectStart"}
      [] what = "monthYearSelectEnd" -> {"monthSelectEnd", "yearSelectEnd"}
      [] what = "fromToSelect" -> {"fromSelect", "toSelect"}
      [] OTHER -> {what}

\* Resolved with the calendar frame of the start date kept for the end date.
ResolvedOnce(what, m, f) ==
    IF what = "calendarFrameEnd" THEN [m EXCEPT !.calendarFrameEnd = m.calendarFrameStart]
    ELSE IF what \in FrameHandles THEN [m EXCEPT ![what] = CurrentFrame(what, f)]
    ELSE m

\* frames().find(...) and contentFrame(): the local takes the frame found.
Resolved(what, m, f) ==
    IF what \in FrameHandles THEN [m EXCEPT ![what] = CurrentFrame(what, f)] ELSE m

\* The statement's frame is the one its handle was resolved to: a handle of a
\* frame that is gone serves no call.
Live(what) ==
    IF Via(what) = "page"
    THEN TRUE
    ELSE mem[Via(what)] # 0 /\ mem[Via(what)] = CurrentFrame(Via(what), form)

\* ------------------------------------------------------- control flow

At(op) == pc = "body" /\ ip \in 1..NumSteps /\ Prog[ip].op = op /\ Live(Prog[ip].what)

What == Prog[ip].what

\* The statement completed; the next one is row n.
Goto(n) ==
    /\ pc' = "body"
    /\ ip' = n
    /\ trace' = Append(trace, ip)
    /\ pending' = pending

\* Advance with the statement after the next one started.
AdvanceSkipping == Goto(ip + 2)

Advance == Goto(ip + 1)

\* Raise with the attempt started over after a failure.
RaiseRetry(e) ==
    /\ pc' = "body"
    /\ ip' = 1
    /\ trace' = trace
    /\ pending' = e

\* Raise with the catch throwing a new plain Error that carries the message.
RaiseWrapped(e) ==
    /\ pc' = "finally"
    /\ ip' = ip
    /\ trace' = trace
    /\ pending' = Err("Error", e.msg)

\* The statement threw e: the catch logs and rethrows, and control reaches
\* the finally block (lines 334 to 338) with no statement of the try run again.
Raise(e) ==
    /\ pc' = "finally"
    /\ ip' = ip
    /\ trace' = trace
    /\ pending' = e

\* ------------------------------------------------------------- actions

\* Lines 66 to 98: a check fails and bookSlot rejects before the try.
CallInvalid ==
    /\ pc = "idle"
    /\ Validate(req) # ""
    /\ pc' = "done"
    /\ outcome' = Err("Error", <<Validate(req)>>)
    /\ UNCHANGED <<ip, req, loc, mem, browser, form, held, page, pending, trace, disk, callers>>

\* Lines 66 to 100: all checks pass and the try is entered.
CallValid ==
    /\ pc = "idle"
    /\ Validate(req) = ""
    /\ pc' = "body"
    /\ ip' = 1
    /\ loc' = Locals(req)
    /\ UNCHANGED <<req, mem, browser, form, held, page, pending, outcome, trace, disk, callers>>

\* Line 103: puppeteer.launch resolves.
Launch ==
    /\ At("launch")
    /\ browser' = "open"
    /\ Advance
    /\ UNCHANGED <<req, loc, mem, form, held, page, outcome, disk, callers>>

\* Line 103: puppeteer.launch rejects; `browser` stays null.
LaunchFails ==
    /\ At("launch")
    /\ Raise(Err("BrowserError", <<"launch">>))
    /\ UNCHANGED <<req, loc, mem, browser, form, held, page, outcome, disk, callers>>

\* What an awaited page action leaves on the portal's pages.
Effect(what, f) ==
    CASE what = "type username" -> [f EXCEPT !.username = req.credentials.utownfbs_username]
      [] what = "type password" -> [f EXCEPT !.password = req.credentials.utownfbs_password]
      [] what = "select facil_type_value" -> [f EXCEPT !.facilType = loc.facil_type_value]
      [] what = "select location_value" -> [f EXCEPT !.facility = loc.location_value]
      [] what = "click startDateInput" ->
            [f EXCEPT !.editing = "start", !.calMonth = <<>>, !.calYear = <<>>]
      [] what = "click endDateInput" ->
            [f EXCEPT !.editing = "end", !.calMonth = <<>>, !.calYear = <<>>]
      [] what \in {"select month start", "select month end"} ->
            [f EXCEPT !.calMonth = loc.month_parsed]
      [] what \in {"select year start", "select year end"} ->
            [f EXCEPT !.calYear = loc.year]
      [] what = "click viewAvailability" -> [f EXCEPT !.searched = TRUE]
      [] what = "click divAvailable" -> [f EXCEPT !.bookDate = loc.date]
      [] what = "select usageType" -> [f EXCEPT !.usage = loc.usageTypeString]
      [] what = "select from" -> [f EXCEPT !.from = loc.start_time_form_value]
      [] what = "select to" -> [f EXCEPT !.to = loc.end_time_form_value]
      [] what = "type attendees" -> [f EXCEPT !.attendees = req.userCount]
      [] what = "select chargeGroup" -> [f EXCEPT !.chargeGroup = "1"]
      [] what = "type purpose" -> [f EXCEPT !.purpose = req.purpose]
      [] OTHER -> f

\* An awaited page action (goto, click, type, select) resolves.
Await ==
    /\ At("await")
    /\ form' \in FrameTrees(What, Effect(What, form))
    /\ Advance
    /\ UNCHANGED <<req, loc, mem, browser, held, page, outcome, disk, callers>>

\* Any awaited browser call rejects with an error of puppeteer's own.
Throws ==
    /\ pc = "body"
    /\ ip \in 1..NumSteps
    /\ Prog[ip].op \in AwaitedOps
    /\ Raise(Err("BrowserError", <<What>>))
    /\ UNCHANGED <<req, loc, mem, browser, form, held, page, outcome, disk, callers>>

\* Appears with every wait resolving, the element there or not.
AppearsAnyway(what) == TRUE

\* DivAvailString made of the parts given to the calendar.
DivAvailStringStripped == loc.year \o loc.month_parsed \o loc.day_parsed

\* Line 225: year + month + day, the parts as the request wrote them.
DivAvailString == loc.year \o loc.month \o loc.day

\* Whether the element a waitForSelector waits for shows up.  The available
\* slot (line 226) is matched on the prefix divAvailString of its id.
Appears(what) ==
    CASE what = "divAvailable" ->
            form.searched /\ DivAvailString \in AvailableIds(form, held)
      [] what = "BookingReferenceNumber" -> TableCells(page.verdict) # {<<>>}
      [] OTHER -> TRUE

StaysAway(what) ==
    CASE what = "divAvailable" -> ~Appears(what)
      [] what = "BookingReferenceNumber" -> <<>> \in TableCells(page.verdict)
      [] OTHER -> TRUE

\* The booking form as it loads (line 239): the checkboxes have some state.
LoadedForms(what, f) ==
    IF what = "bookingFrame navigation"
    THEN {[f EXCEPT !.door = d, !.aircon = a] : d \in BOOLEAN, a \in BOOLEAN}
    ELSE {f}

\* The cells in the page once the reference table is visible (line 311).
VisibleCells(what) ==
    IF what = "BookingReferenceNumber" THEN TableCells(page.verdict) \ {<<>>} ELSE {mem.cells}

\* waitForSelector / waitForNavigation resolves.
WaitAppears ==
    /\ At("wait")
    /\ Appears(What)
    /\ form' \in LoadedForms(What, form)
    /\ \E c \in VisibleCells(What) : mem' = [mem EXCEPT !.cells = c]
    /\ Advance
    /\ UNCHANGED <<req, loc, browser, held, page, outcome, disk, callers>>

\* WaitTimesOut with the timeout turned into an ExpectedElementNotFound.
WaitTimesOutAsNotFound ==
    /\ At("wait")
    /\ StaysAway(What)
    /\ Raise(Err("ExpectedElementNotFound", <<What>>))
    /\ UNCHANGED <<req, loc, mem, browser, form, held, page, outcome, disk, callers>>

\* waitForSelector / waitForNavigation rejects after its timeout.
WaitTimesOut ==
    /\ At("wait")
    /\ StaysAway(What)
    /\ Raise(Err("TimeoutError", <<What>>))
    /\ UNCHANGED <<req, loc, mem, browser, form, held, page, outcome, disk, callers>>

\* FBSInteractor.sleep resolves.
Sleep ==
    /\ At("sleep")
    /\ Advance
    /\ UNCHANGED <<req, loc, mem, browser, form, held, page, outcome, disk, callers>>

\* frames().find(...) finds the frame.
FrameFound ==
    /\ At("frame")
    /\ CurrentFrame(What, form) # 0
    /\ mem' = Resolved(What, mem, form)
    /\ Advance
    /\ UNCHANGED <<req, loc, browser, form, held, page, outcome, disk, callers>>

\* FrameMissing with the undefined frame passed on to the next statement.
FrameMissingIgnored ==
    /\ At("frame")
    /\ CurrentFrame(What, form) = 0
    /\ mem' = Resolved(What, mem, form)
    /\ Advance
    /\ UNCHANGED <<req, loc, browser, form, held, page, outcome, disk, callers>>

\* frames().find(...) gives undefined.
FrameMissing ==
    /\ At("frame")
    /\ CurrentFrame(What, form) = 0
    /\ mem' = [mem EXCEPT !.missing = What]
    /\ Raise(Err("ExpectedElementNotFound", <<Prog[ip].msg>>))
    /\ UNCHANGED <<req, loc, browser, form, held, page, outcome, disk, callers>>

\* $(selector) gives a handle (both handles, where two are tested together).
QueryFound ==
    /\ pc = "body" /\ ip \in 1..NumSteps /\ Prog[ip].op \in {"query", "query2"}
    /\ Live(What)
    /\ mem' = Resolved(What, mem, form)
    /\ Advance
    /\ UNCHANGED <<req, loc, browser, form, held, page, outcome, disk, callers>>

\* $(selector) gives null (for one of the two, where two are tested together).
QueryMissing ==
    /\ pc = "body" /\ ip \in 1..NumSteps /\ Prog[ip].op \in {"query", "query2"}
    /\ Live(What)
    /\ \E a \in Artifacts(What) : mem' = [mem EXCEPT !.missing = a]
    /\ Raise(Err("ExpectedElementNotFound", <<Prog[ip].msg>>))
    /\ UNCHANGED <<req, loc, browser, form, held, page, outcome, disk, callers>>

\* ClickDay with the end-date calendar given the day of endTime.
ClickDayOfEndTime(f) ==
    LET day_end == StripLeadingZeros(Field(Field(req.endTime, 1), 3))
    IN  IF f.editing = "start"
        THEN IF CellExists(f.calMonth, loc.day_parsed)
             THEN [f EXCEPT !.startDate = <<f.calYear, f.calMonth, loc.day_parsed>>,
                            !.calendarFrame = 0]
             ELSE f
        ELSE IF CellExists(f.calMonth, day_end)
             THEN [f EXCEPT !.endDate = <<f.calYear, f.calMonth, day_end>>,
                            !.calendarFrame = 0]
             ELSE f

\* Lines 171 to 179 and 202 to 210: click the first cell whose trimmed text is
\* the day; no cell, no click.  The click sets the date and closes the dialog.
ClickDay(f) ==
    IF CellExists(f.calMonth, loc.day_parsed)
    THEN IF f.editing = "start"
         THEN [f EXCEPT !.startDate = <<f.calYear, f.calMonth, loc.day_parsed>>,
                        !.calendarFrame = 0]
         ELSE [f EXCEPT !.endDate = <<f.calYear, f.calMonth, loc.day_parsed>>,
                        !.calendarFrame = 0]
    ELSE f

CalClick ==
    /\ At("calclick")
    /\ form' = ClickDay(form)
    /\ Advance
    /\ UNCHANGED <<req, loc, mem, browser, held, page, outcome, disk, callers>>

\* Lines 272 and 280: read el.checked.
Checked ==
    /\ At("checked")
    /\ mem' = IF What = "read doorAccess"
              THEN [mem EXCEPT !.isDoorAccessChecked = form.door]
              ELSE [mem EXCEPT !.isAirconChecked = form.aircon]
    /\ Advance
    /\ UNCHANGED <<req, loc, browser, form, held, page, outcome, disk, callers>>

\* Differs with the checkbox clicked whenever it is asked to be checked.
ClickWhenRequested(isChecked, desired) == desired

\* isChecked !== desired
Differs(isChecked, desired) == isChecked # desired

ToggleNeeded ==
    IF What = "click doorAccess"
    THEN Differs(mem.isDoorAccessChecked, req.doorAccess)
    ELSE Differs(mem.isAirconChecked, req.aircon)

\* Lines 273 to 275 and 281 to 283: the checkbox is clicked.
ToggleClick ==
    /\ At("toggle")
    /\ ToggleNeeded
    /\ form' = IF What = "click doorAccess"
               THEN [form EXCEPT !.door = ~form.door]
               ELSE [form EXCEPT !.aircon = ~form.aircon]
    /\ Advance
    /\ UNCHANGED <<req, loc, mem, browser, held, page, outcome, disk, callers>>

\* Lines 273 to 275 and 281 to 283: the checkbox is left alone.
ToggleSkip ==
    /\ At("toggle")
    /\ ~ToggleNeeded
    /\ pc' = pc
    /\ ip' = ip + 1
    /\ UNCHANGED <<req, loc, mem, browser, form, held, page, pending, outcome, trace, disk, callers>>

\* Submit with the button clicked as soon as the booking form is open,
\* whatever of it has been filled.
SubmitEarly ==
    /\ pc = "body"
    /\ ip \in 1..NumSteps
    /\ Prog[ip].stage = "form"
    /\ page' = [verdict |-> "silent", created |-> {}]
    /\ pc' = pc
    /\ ip' = StepOf("click createBooking") + 1
    /\ trace' = Append(trace, StepOf("click createBooking"))
    /\ pending' = pending
    /\ UNCHANGED <<req, loc, mem, browser, form, held, outcome, disk, callers>>

\* Line 290: the create-booking button is clicked and the portal answers.
Submit ==
    /\ At("submit")
    /\ \E v \in Verdicts(form, held) :
          page' = [verdict |-> v,
                   created |-> IF v = "accepted" THEN {FormWindow(form)} ELSE {}]
    /\ Advance
    /\ UNCHANGED <<req, loc, mem, browser, form, held, outcome, disk, callers>>

\* Probe with the reference table looked at whatever the probe found.
ProbeIgnored ==
    /\ At("probe")
    /\ mem' = [mem EXCEPT !.errorMsgElement = ErrorShown(page.verdict)]
    /\ Goto(StepOf("BookingReferenceNumber"))
    /\ UNCHANGED <<req, loc, browser, form, held, page, outcome, disk, callers>>

\* Lines 294 and 295: probe for span#labelMessage1.
Probe ==
    /\ At("probe")
    /\ mem' = [mem EXCEPT !.errorMsgElement = ErrorShown(page.verdict)]
    /\ Goto(IF ErrorShown(page.verdict) THEN ip + 1 ELSE StepOf("BookingReferenceNumber"))
    /\ UNCHANGED <<req, loc, browser, form, held, page, outcome, disk, callers>>

\* Line 296: el.textContent?.trim()
ErrorMessageOf(raw) == IF raw.null THEN <<>> ELSE Trim(raw.s)

\* Classify without the two else branches that catch every other text.
ClassifyNoCatchAll(errorMessage) ==
    IF Includes(errorMessage, S30) \/ Includes(errorMessage, ELS)
    THEN Err("InvalidBookingTimeException", errorMessage)
    ELSE IF Includes(errorMessage, SLOT)
    THEN Err("SlotTakenException", errorMessage)
    ELSE NoCompletion

\* Classify with the slot-taken rule tested before the invalid-time rule.
ClassifySlotFirst(errorMessage) ==
    IF ~Falsy(errorMessage)
    THEN IF Includes(errorMessage, SLOT)
         THEN Err("SlotTakenException", errorMessage)
         ELSE IF Includes(errorMessage, S30) \/ Includes(errorMessage, ELS)
         THEN Err("InvalidBookingTimeException", errorMessage)
         ELSE Err("Error", <<"Booking failed: ">> \o errorMessage)
    ELSE Err("Error", <<"Booking failed with an unknown error (no message).">>)

\* Classify with SlotTakenException constructed without the message.
ClassifySlotNoMessage(errorMessage) ==
    IF ~Falsy(errorMessage)
    THEN IF Includes(errorMessage, S30) \/ Includes(errorMessage, ELS)
         THEN Err("InvalidBookingTimeException", errorMessage)
         ELSE IF Includes(errorMessage, SLOT)
         THEN Err("SlotTakenException", <<>>)
         ELSE Err("Error", <<"Booking failed: ">> \o errorMessage)
    ELSE Err("Error", <<"Booking failed with an unknown error (no message).">>)

\* Classify without the slot-taken rule.
ClassifyNoSlotRule(errorMessage) ==
    IF ~Falsy(errorMessage)
    THEN IF Includes(errorMessage, S30) \/ Includes(errorMessage, ELS)
         THEN Err("InvalidBookingTimeException", errorMessage)
         ELSE Err("Error", <<"Booking failed: ">> \o errorMessage)
    ELSE Err("Error", <<"Booking failed with an unknown error (no message).">>)

\* Classify with the catch-all rule throwing the no-message error.
ClassifyGenericNoMessage(errorMessage) ==
    IF ~Falsy(errorMessage)
    THEN IF Includes(errorMessage, S30) \/ Includes(errorMessage, ELS)
         THEN Err("InvalidBookingTimeException", errorMessage)
         ELSE IF Includes(errorMessage, SLOT)
         THEN Err("SlotTakenException", errorMessage)
         ELSE Err("Error", <<"Booking failed with an unknown error (no message).">>)
    ELSE Err("Error", <<"Booking failed with an unknown error (no message).">>)

\* Classify without the test for an empty message.
ClassifyNoEmptyTest(errorMessage) ==
    IF Includes(errorMessage, S30) \/ Includes(errorMessage, ELS)
    THEN Err("InvalidBookingTimeException", errorMessage)
    ELSE IF Includes(errorMessage, SLOT)
    THEN Err("SlotTakenException", errorMessage)
    ELSE Err("Error", <<"Booking failed: ">> \o errorMessage)

\* Lines 297 to 307: the error thrown for the text of the error element.
Classify(errorMessage) ==
    IF ~Falsy(errorMessage)
    THEN IF Includes(errorMessage, S30) \/ Includes(errorMessage, ELS)
         THEN Err("InvalidBookingTimeException", errorMessage)
         ELSE IF Includes(errorMessage, SLOT)
         THEN Err("SlotTakenException", errorMessage)
         ELSE Err("Error", <<"Booking failed: ">> \o errorMessage)
    ELSE Err("Error", <<"Booking failed with an unknown error (no message).">>)

\* Lines 296 to 307: read the text of the error element and throw.
ReadError ==
    /\ At("classify")
    /\ \E raw \in RawTexts(page.verdict) :
          /\ mem' = [mem EXCEPT !.raw = raw, !.errorMessage = ErrorMessageOf(raw)]
          /\ Raise(Classify(ErrorMessageOf(raw)))
    /\ UNCHANGED <<req, loc, browser, form, held, page, outcome, disk, callers>>

\* Lines 314 to 317: elements[1]?.textContent?.trim() || undefined
BookingIdOf(cells) == IF Len(cells) >= 2 THEN Trim(cells[2]) ELSE Undefined

\* Lines 314 to 323: a reference was read.
ReadRef ==
    /\ At("readref")
    /\ ~Falsy(BookingIdOf(mem.cells))
    /\ mem' = [mem EXCEPT !.bookingId = BookingIdOf(mem.cells)]
    /\ Advance
    /\ UNCHANGED <<req, loc, browser, form, held, page, outcome, disk, callers>>

\* ReadRefMissing without the test of line 319.
ReadRefMissingIgnored ==
    /\ At("readref")
    /\ Falsy(BookingIdOf(mem.cells))
    /\ Advance
    /\ UNCHANGED <<req, loc, mem, browser, form, held, page, outcome, disk, callers>>

\* Lines 314 to 321: no reference was read.
ReadRefMissing ==
    /\ At("readref")
    /\ Falsy(BookingIdOf(mem.cells))
    /\ Raise(Err("Error",
            <<"No booking reference number found, booking might have failed silently.">>))
    /\ UNCHANGED <<req, loc, mem, browser, form, held, page, outcome, disk, callers>>

\* Lines 326 to 330: the screenshot is written under a name made from Date.now().
Screenshot ==
    /\ At("screenshot")
    /\ \E now \in 1..MaxClock :
          /\ mem' = [mem EXCEPT !.screenshotPath = ScreenshotPath(now)]
          /\ disk' = disk \cup {ScreenshotPath(now)}
    /\ Advance
    /\ UNCHANGED <<req, loc, browser, form, held, page, outcome, callers>>

\* Line 332: return bookingId; control reaches the finally block.
Return ==
    /\ At("return")
    /\ pc' = "finally"
    /\ ip' = ip
    /\ trace' = Append(trace, ip)
    /\ pending' = Returned(ReturnValue(mem.bookingId, mem.screenshotPath))
    /\ UNCHANGED <<req, loc, mem, browser, form, held, page, outcome, disk, callers>>

\* CloseBrowser with the close at the end of the try instead of in a finally.
CloseOnSuccessOnly(b) == IF b # "null" /\ pending.kind = "Returned" THEN "closed" ELSE b

\* CloseBrowser of a bookSlot that has no finally block.
CloseNever(b) == b

\* Lines 338 to 341: if (browser) await browser.close()
CloseBrowser(b) == IF b # "null" THEN "closed" ELSE b

\* Lines 337 to 342: the browser is closed and the promise settles.
Finally ==
    /\ pc = "finally"
    /\ browser' = CloseBrowser(browser)
    /\ outcome' = pending
    /\ pc' = "done"
    /\ UNCHANGED <<ip, req, loc, mem, form, held, page, pending, trace, disk, callers>>

\* ------------------------------- the handler of admin_bookfbs, book.ts

\* fs.existsSync(path): false for undefined, which is no path.
ExistsSync(path, files) == path # Undefined /\ path \in files

\* result[name] for the value bookSlot resolves with.  The value is the
\* reference, a string (the model keeps it in the field bookingId), and a
\* string has no property of any of the names the handler reads.
PropertyOf(value, name) ==
    IF name \in DOMAIN value /\ name # "bookingId" THEN value[name] ELSE Undefined

\* book.ts lines 1401 to 1409: the text shown for a caught error.
HandlerMessage(e) ==
    IF e.kind = "InvalidBookingTimeException"
    THEN <<"Invalid booking time. Please ensure the booking is at least 30 minutes in the future.">>
    ELSE IF e.kind = "SlotTakenException"
    THEN <<"This slot is already booked by another user.">>
    ELSE e.msg

\* book.ts lines 1347 to 1376: the await gives `result`, and the status
\* message is edited to show result.bookingId.
HandlerConfirms ==
    /\ pc = "done"
    /\ outcome.kind = "Returned"
    /\ handler.at = "awaiting"
    /\ handler' = [handler EXCEPT !.at = "screenshots",
                                  !.reference = PropertyOf(outcome.value, "bookingId")]
    /\ UNCHANGED <<pc, ip, req, loc, mem, browser, form, held, page, pending, outcome,
                   trace, disk, conc, rest>>

\* book.ts lines 1378 to 1397: the pre-submission screenshot and the
\* confirmation screenshot are each sent and then unlinked, if the property
\* of `result` names a file that exists.
HandlerScreenshots ==
    /\ handler.at = "screenshots"
    /\ LET paths == {PropertyOf(outcome.value, "preSubmitScreenshot"),
                     PropertyOf(outcome.value, "confirmationScreenshot")}
           sent == {path \in paths : ExistsSync(path, disk)}
       IN  /\ handler' = [handler EXCEPT !.at = "done", !.photos = @ \cup sent]
           /\ disk' = disk \ sent
    /\ UNCHANGED <<pc, ip, req, loc, mem, browser, form, held, page, pending, outcome,
                   trace, conc, rest>>

\* book.ts lines 1399 to 1420: the catch shows the failure in the chat.
HandlerFails ==
    /\ pc = "done"
    /\ outcome.kind \notin {"none", "Returned"}
    /\ handler.at = "awaiting"
    /\ handler' = [handler EXCEPT !.at = "done", !.failure = HandlerMessage(outcome)]
    /\ UNCHANGED <<pc, ip, req, loc, mem, browser, form, held, page, pending, outcome,
                   trace, disk, conc, rest>>

Next ==
    \/ CallInvalid \/ CallValid
    \/ Launch \/ LaunchFails
    \/ Await \/ Throws
    \/ WaitAppears \/ WaitTimesOut
    \/ Sleep
    \/ FrameFound \/ FrameMissing
    \/ QueryFound \/ QueryMissing
    \/ CalClick
    \/ Checked \/ ToggleClick \/ ToggleSkip
    \/ Submit \/ Probe \/ ReadError
    \/ ReadRef \/ ReadRefMissing
    \/ Screenshot \/ Return
    \/ Finally
    \/ HandlerConfirms \/ HandlerScreenshots \/ HandlerFails

Spec == Init /\ [][Next]_vars

\* ------------------------------ the date decomposition, lines 66 to 86

\* The digits of a number written with two and with four digits.
Digits2(n) == <<n \div 10, n % 10>>

Digits4(n) == Digits2(n \div 100) \o Digits2(n % 100)

DaysInMonth(y, m) ==
    IF m = 2 THEN (IF y % 4 = 0 THEN 29 ELSE 28)
    ELSE IF m \in {4, 6, 9, 11} THEN 30 ELSE 31

\* Every date of the years 2024 onwards, as zero-padded "YYYY-MM-DD" split
\* on "-", the year as its four digits.
ValidDates ==
    {<<Digits4(t[1]), Digits2(t[2]), Digits2(t[3])>> :
        t \in {u \in (2024..(2023 + MaxYears)) \X (1..12) \X (1..31) :
                  u[3] <= DaysInMonth(u[1], u[2])}}

DateRequests ==
    {[BaseRequest EXCEPT !.startTime = DT(d, 1), !.endTime = DT(d, 2)] : d \in ValidDates}

\* bookSlot called with any valid date.
InitDate ==
    /\ pc = "idle"
    /\ ip = 0
    /\ req \in DateRequests
    /\ loc = NoLocals
    /\ mem = NoMem
    /\ browser = "null"
    /\ form = NoForm
    /\ held = {}
    /\ page = NoPage
    /\ pending = NoCompletion
    /\ outcome = NoCompletion
    /\ trace = <<>>
    /\ disk = {}
    /\ conc = NoConc
    /\ handler = NoHandler
    /\ RestIdle

\* Lines 66 to 100: the date is split and its month and day are stripped.
NextDate == CallValid

SpecDate == InitDate /\ [][NextDate]_vars

\* ------------------------------------- the classification, line 296 on

\* The portal's pages where a call for BaseRequest has filled and submitted
\* the booking form.
FormAtProbe ==
    [username |-> "user", password |-> "secret",
     facilType |-> Locals(BaseRequest).facil_type_value,
     facility |-> Locals(BaseRequest).location_value,
     editing |-> "end",
     calMonth |-> Locals(BaseRequest).month_parsed, calYear |-> Locals(BaseRequest).year,
     searchFrame |-> 1, dialogs |-> 2, calendarFrame |-> 0,
     resultsFrame |-> 1, bookingFrame |-> 1,
     startDate |-> D2, endDate |-> D2, searched |-> TRUE, bookDate |-> D2,
     usage |-> Locals(BaseRequest).usageTypeString,
     from |-> Locals(BaseRequest).start_time_form_value,
     to |-> Locals(BaseRequest).end_time_form_value,
     attendees |-> BaseRequest.userCount, chargeGroup |-> "1",
     purpose |-> BaseRequest.purpose,
     door |-> BaseRequest.doorAccess, aircon |-> BaseRequest.aircon]

\* What that call holds once line 294 has found the error element.
MemAtProbe ==
    [NoMem EXCEPT !.searchFrame = 1, !.calendarFrameStart = 1, !.calendarFrameEnd = 2,
                  !.bookingCalFrame = 1, !.bookingFrame = 1,
                  !.isDoorAccessChecked = ~BaseRequest.doorAccess,
                  !.isAirconChecked = ~BaseRequest.aircon,
                  !.errorMsgElement = TRUE]

\* A call for BaseRequest stands at line 296: every statement before it has
\* run, the error element is there, and its text is any text.
InitClassify ==
    /\ pc = "body"
    /\ ip = StepOf("read errorMessage")
    /\ req = BaseRequest
    /\ loc = Locals(BaseRequest)
    /\ mem = MemAtProbe
    /\ browser = "open"
    /\ form = FormAtProbe
    /\ held = {}
    /\ page = [verdict |-> "anytext", created |-> {}]
    /\ pending = NoCompletion
    /\ outcome = NoCompletion
    /\ trace = [i \in 1..(StepOf("read errorMessage") - 1) |-> i]
    /\ disk = {}
    /\ conc = NoConc
    /\ handler = NoHandler
    /\ RestIdle

\* Lines 296 to 308, the way out through the finally, and the handler.
NextClassify == ReadError \/ Throws \/ Finally \/ HandlerFails

SpecClassify == InitClassify /\ [][NextClassify]_vars

\* --------------------------------------------------- the venue lookup

\* Calls that differ in the number passed as locationID, integer or not,
\* inside the table or not, and in usageType, the argument checked just
\* before it and just after it.
VenueRequests ==
    {[BaseRequest EXCEPT !.locationID = l, !.locationHalf = h, !.usageType = u] :
        l \in (1 - MaxBeyond)..(NumVenues + MaxBeyond), h \in {0, 1},
        u \in UsageTypeKeys \cup {"", "Bogus"}}

InitVenue ==
    /\ pc = "idle"
    /\ ip = 0
    /\ req \in VenueRequests
    /\ loc = NoLocals
    /\ mem = NoMem
    /\ browser = "null"
    /\ form = NoForm
    /\ held = {}
    /\ page = NoPage
    /\ pending = NoCompletion
    /\ outcome = NoCompletion
    /\ trace = <<>>
    /\ disk = {}
    /\ conc = NoConc
    /\ handler = NoHandler
    /\ RestIdle

\* Lines 66 to 100: the checks, the venue lookup among them.
NextVenue == CallInvalid \/ CallValid

SpecVenue == InitVenue /\ [][NextVenue]_vars

\* ------------------------------------------------- several calls at once

\* bookSlot is a static async method: the bots may start a call while an
\* earlier one is suspended at an await, and the calls' steps interleave at
\* the awaits.  conc.at is each call's position, conc.browser and conc.page
\* the locals `browser` and `page` by activation, conc.launchedBy the call
\* whose launch() made each browser, conc.pageOf the browser of each page,
\* conc.open the browsers running, conc.acted who used which page and
\* conc.closedBy who closed which browser.

SlotShared(a) == 1

\* `let browser` and `const page` are locals: one of each per call.
Slot(a) == a

BrowserOf(a) == conc.browser[Slot(a)]

PageOf(a) == conc.page[Slot(a)]

\* Lines 66 to 100 with arguments that pass the checks.
ConcCall(a) ==
    /\ conc.at[a] = "idle"
    /\ conc' = [conc EXCEPT !.at[a] = "launching", !.browser[Slot(a)] = 0]

\* Lines 66 to 98 with arguments that fail a check: the throw is before the
\* try, so neither a browser nor the finally is involved.
ConcCallInvalid(a) ==
    /\ conc.at[a] = "idle"
    /\ conc' = [conc EXCEPT !.at[a] = "done"]

\* Line 103: puppeteer starts a browser process of its own for this launch.
ConcLaunch(a) ==
    /\ conc.at[a] = "launching"
    /\ LET b == Len(conc.launchedBy) + 1
       IN  conc' = [conc EXCEPT !.at[a] = "opening",
                                !.browser[Slot(a)] = b,
                                !.launchedBy = Append(@, a),
                                !.open = @ \cup {b}]

\* Line 103 rejects: `browser` keeps its null.
ConcLaunchFails(a) ==
    /\ conc.at[a] = "launching"
    /\ conc' = [conc EXCEPT !.at[a] = "finally"]

\* Line 109: a new page in the browser that `browser` names.
ConcNewPage(a) ==
    /\ conc.at[a] = "opening"
    /\ BrowserOf(a) \in conc.open
    /\ conc' = [conc EXCEPT !.at[a] = "body",
                            !.page[Slot(a)] = Len(conc.pageOf) + 1,
                            !.pageOf = Append(@, BrowserOf(a))]

\* Lines 114 to 330: one awaited step on `page` or on a frame of it.
ConcAct(a) ==
    /\ conc.at[a] = "body"
    /\ conc.acts[a] < MaxActs
    /\ conc.pageOf[PageOf(a)] \in conc.open
    /\ conc' = [conc EXCEPT !.acts[a] = @ + 1,
                            !.acted = @ \cup {<<a, PageOf(a)>>}]

\* A step of the try rejects or throws; the catch of line 334 rethrows.
ConcThrow(a) ==
    /\ conc.at[a] \in {"opening", "body"}
    /\ conc' = [conc EXCEPT !.at[a] = "finally"]

\* Line 332.
ConcReturn(a) ==
    /\ conc.at[a] = "body"
    /\ conc.acts[a] > 0
    /\ conc.pageOf[PageOf(a)] \in conc.open
    /\ conc' = [conc EXCEPT !.at[a] = "finally"]

\* Lines 337 to 342: close what `browser` names, if it names anything.
ConcFinally(a) ==
    /\ conc.at[a] = "finally"
    /\ LET b == BrowserOf(a)
       IN  conc' = [conc EXCEPT !.at[a] = "done",
                                !.open = IF b # 0 THEN @ \ {b} ELSE @,
                                !.closedBy = IF b # 0 THEN @ \cup {<<a, b>>} ELSE @]

InitConc ==
    /\ pc = "idle"
    /\ ip = 0
    /\ req = BaseRequest
    /\ loc = NoLocals
    /\ mem = NoMem
    /\ browser = "null"
    /\ form = NoForm
    /\ held = {}
    /\ page = NoPage
    /\ pending = NoCompletion
    /\ outcome = NoCompletion
    /\ trace = <<>>
    /\ disk = {}
    /\ conc = NoConc
    /\ handler = NoHandler
    /\ RestIdle

ConcStep(a) ==
    \/ ConcCall(a)
    \/ ConcCallInvalid(a)
    \/ ConcLaunch(a)
    \/ ConcLaunchFails(a)
    \/ ConcNewPage(a)
    \/ ConcAct(a)
    \/ ConcThrow(a)
    \/ ConcReturn(a)
    \/ ConcFinally(a)

NextConc ==
    \E a \in Attempts :
        /\ ConcStep(a)
        /\ UNCHANGED <<pc, ip, req, loc, mem, browser, form, held, page, pending,
                       outcome, trace, disk, handler, rest>>

SpecConc == InitConc /\ [][NextConc]_vars

\* ------------------------------------------- the date part of endTime

\* "2024-09-08", the day after D1.
D1After == << <<2024>>, <<0, 9>>, <<0, 8>> >>

\* What the date part of endTime can be: the start date, the day after it,
\* another month, nothing.
EndDates == {D1, D1After, D2, <<>>}

\* Calls for D1 that differ in their times and in the date part of endTime;
\* the time part of endTime may be missing.
EndDateRequests ==
    {[BaseRequest EXCEPT !.startTime = DT(D1, st), !.endTime = <<ed, et>>] :
        st \in Times, ed \in EndDates, et \in {<<t>> : t \in Times} \cup {<<>>}}

\* bookSlot called with any of these.
InitEndDate ==
    /\ pc = "idle"
    /\ ip = 0
    /\ req \in EndDateRequests
    /\ loc = NoLocals
    /\ mem = NoMem
    /\ browser = "null"
    /\ form = NoForm
    /\ held \in HeldInitsFor(req)
    /\ page = NoPage
    /\ pending = NoCompletion
    /\ outcome = NoCompletion
    /\ trace = <<>>
    /\ disk = {}
    /\ conc = NoConc
    /\ handler = NoHandler
    /\ RestIdle

\* The whole call and the handler that awaits it.
NextEndDate == Next

SpecEndDate == InitEndDate /\ [][NextEndDate]_vars

\* ---------------------------------- book.ts, the admin_bookfbs command

\* The longest run of words after the end time of a command.
MaxWords == 2

\* ctx.from: absent, or a user with an id and perhaps a username ("" for
\* none).
From(id, username) == [present |-> TRUE, id |-> id, username |-> username]

NoFrom == [present |-> FALSE, id |-> 0, username |-> ""]

Senders == {NoFrom, From(0, "zero"), From(1, "alice"), From(2, ""), From(3, "carol")}

User(id, username, password) ==
    [telegram_id |-> id, utownfbs_username |-> username, utownfbs_password |-> password]

\* book.ts lines 29 to 37, what fbsCredentials holds once the module is
\* loaded: null when the file is missing or unreadable, else the parsed
\* JSON, with its `users` array or without one.
NoCredentials == [loaded |-> FALSE, hasUsers |-> FALSE, users |-> <<>>]

Credentials(users) == [loaded |-> TRUE, hasUsers |-> TRUE, users |-> users]

CredentialFiles ==
    {NoCredentials,
     [loaded |-> TRUE, hasUsers |-> FALSE, users |-> <<>>],
     Credentials(<<>>),
     Credentials(<<User(1, "a1", "p1")>>),
     Credentials(<<User(1, "a1", "p1"), User(2, "a2", "p2")>>),
     Credentials(<<User(2, "b2", "q2"), User(2, "a2", "p2")>>),
     Credentials(<<User(0, "a0", "p0"), User(3, "a3", "p3")>>)}

\* "25:00", a time of day that does not exist.
NoSuchTime == 99

\* The words of a command after "/admin_bookfbs": venue, date, start time,
\* a separator, end time, and the words that follow.  A date is its fields
\* split on "-", a time of day <<t>>; <<>> is the empty word that two blanks
\* in a row leave.
BaseCommand ==
    [length |-> 5, venue |-> "Gym", date |-> D2, startTime |-> <<1>>, sep |-> "to",
     endTime |-> <<2>>, tail |-> <<>>]

VenueWords == {"SR1", "Gym", "MPSH", "gym", "Lounge", ""}

DateWords == {D1, D2, D3, << <<2024>>, <<1, 2>> >>, <<>>}

TimeWords == {<<t>> : t \in Times} \cup {<<NoSuchTime>>, <<>>}

TailWords == {"aircon:no", "Aircon:Yes", "door:no", "door:open", "Netball"}

Tails == UNION {[1..n -> TailWords] : n \in 0..MaxWords}

Commands ==
    {[BaseCommand EXCEPT !.venue = v] : v \in VenueWords}
    \cup {[BaseCommand EXCEPT !.date = d] : d \in DateWords}
    \cup {[BaseCommand EXCEPT !.startTime = st, !.endTime = et] :
             st \in TimeWords, et \in TimeWords}
    \cup {[BaseCommand EXCEPT !.sep = x] : x \in {"to", "-", ""}}
    \cup {[BaseCommand EXCEPT !.tail = t, !.length = 5 + Len(t)] : t \in Tails}
    \cup {[BaseCommand EXCEPT !.length = n] : n \in 0..4}

\* users.some(u => u.telegram_id === id)
Some(users, id) == \E i \in 1..Len(users) : users[i].telegram_id = id

\* Find with the first entry of the file taken, whoever it belongs to.
FindFirst(users, id) == IF users = <<>> THEN <<>> ELSE <<users[1]>>

\* users.find(u => u.telegram_id === id): the first such entry, <<>> for
\* undefined.
Find(users, id) ==
    IF Some(users, id)
    THEN <<users[CHOOSE i \in 1..Len(users) :
                /\ users[i].telegram_id = id
                /\ \A j \in 1..(i - 1) : users[j].telegram_id # id]>>
    ELSE <<>>

\* FBSInteractor.VENUES.find(v => v.name === venue)?.id; 0 for undefined,
\* falsy like it.
VenueIdOf(venue) ==
    IF \E i \in 1..Len(VENUES) : VENUES[i].name = venue
    THEN VENUES[CHOOSE i \in 1..Len(VENUES) :
                    /\ VENUES[i].name = venue
                    /\ \A j \in 1..(i - 1) : VENUES[j].name # venue].id
    ELSE 0

\* An invalid luxon DateTime.
InvalidDateTime == [isValid |-> FALSE, year |-> 0, month |-> 0, day |-> 0, time |-> 0]

\* DateTime.fromFormat(`${date} ${time}`, "yyyy-MM-dd HH:mm"): the numbers
\* the text denotes when it has that shape and names a day and a time of day
\* that exist, an invalid DateTime otherwise.
FromFormat(date, time) ==
    IF /\ Len(date) = 3
       /\ Len(date[1]) = 1 /\ Len(date[2]) = 2 /\ Len(date[3]) = 2
       /\ CellExists(date[2], date[3])
       /\ Len(time) = 1
    THEN IF time[1] \in Times
         THEN [isValid |-> TRUE, year |-> date[1][1], month |-> Num(date[2]),
               day |-> Num(date[3]), time |-> time[1]]
         ELSE InvalidDateTime
    ELSE InvalidDateTime

\* dt.toFormat("yyyy-MM-dd HH:mm:ss") split the way bookSlot splits it.
ToFormat(dt) == << <<<<dt.year>>, Digits2(dt.month), Digits2(dt.day)>>, <<dt.time>> >>

\* arg.toLowerCase() for the words of TailWords.
ToLowerCase(arg) == IF arg = "Aircon:Yes" THEN "aircon:yes" ELSE IF arg = "Netball" THEN "netball" ELSE arg

\* arg.startsWith(prefix) for lower-cased words.
StartsWith(arg, prefix) ==
    CASE prefix = "aircon:" -> arg \in {"aircon:no", "aircon:yes"}
      [] prefix = "door:" -> arg \in {"door:no", "door:open"}
      [] OTHER -> FALSE

RECURSIVE Options(_, _, _)
\* book.ts lines 1281 to 1298: the loop over the words from the sixth on,
\* started with i = 1 on the tail and the defaults in o.
Options(tail, i, o) ==
    IF i > Len(tail)
    THEN o
    ELSE LET arg == ToLowerCase(tail[i])
         IN  IF StartsWith(arg, "aircon:")
             THEN Options(tail, i + 1,
                          [o EXCEPT !.aircon = (arg = "aircon:yes"), !.purposeStart = i + 1])
             ELSE IF StartsWith(arg, "door:")
             THEN Options(tail, i + 1,
                          [o EXCEPT !.doorAccess = (arg = "door:yes"), !.purposeStart = i + 1])
             ELSE Options(tail, i + 1, o)

\* book.ts lines 1274 to 1317: what the handler reads out of the words.
Parsed(args) ==
    LET o == Options(args.tail, 1, [aircon |-> TRUE, doorAccess |-> TRUE, purposeStart |-> 1])
        words == SubSeq(args.tail, o.purposeStart, Len(args.tail))
    IN  [venueId |-> VenueIdOf(args.venue),
         startDateTime |-> FromFormat(args.date, args.startTime),
         endDateTime |-> FromFormat(args.date, args.endTime),
         aircon |-> o.aircon, doorAccess |-> o.doorAccess,
         purpose |-> IF words = <<>> THEN <<"Admin Booking">> ELSE words]

\* book.ts line 1251 with `users` read off a file that has none: a
\* TypeError.
AuthorizationThrows(from, file) == file.loaded /\ from.present /\ from.id # 0 /\ ~file.hasUsers

\* book.ts line 1251, negated: the sender may use the command.
Authorized(from, file) ==
    /\ file.loaded
    /\ from.present /\ from.id # 0
    /\ file.hasUsers /\ Some(file.users, from.id)

\* The reply that ends the command before any booking, "" when the command
\* passes lines 1251 to 1323.
Refusal(from, file, args) ==
    IF ~Authorized(from, file)
    THEN "You are not authorized to use this command."
    ELSE IF args.length < 5
    THEN "Invalid format. Use:"
    ELSE IF Parsed(args).venueId = 0
    THEN "Invalid venue. Available venues: "
    ELSE IF ~Parsed(args).startDateTime.isValid \/ ~Parsed(args).endDateTime.isValid
    THEN "Invalid date/time format. Use YYYY-MM-DD HH:mm"
    ELSE ""

\* No call of bookSlot has been made.
NoRequest ==
    [startTime |-> <<>>, endTime |-> <<>>, locationID |-> 0, locationHalf |-> 0,
     usageType |-> "", doorAccess |-> FALSE, aircon |-> FALSE,
     purpose |-> <<>>, userCount |-> 0,
     credentials |-> [utownfbs_username |-> "", utownfbs_password |-> ""]]

\* book.ts lines 1341 to 1357: the arguments of the call.
BookSlotArguments(c, userCreds) ==
    [startTime |-> ToFormat(c.locals.startDateTime),
     endTime |-> ToFormat(c.locals.endDateTime),
     purpose |-> c.locals.purpose \o
                 <<" - Booked by ", IF c.from.username = "" THEN "Unknown" ELSE c.from.username>>,
     locationID |-> c.locals.venueId, locationHalf |-> 0,
     usageType |-> "Student Activities",
     userCount |-> 1,
     doorAccess |-> c.locals.doorAccess,
     aircon |-> c.locals.aircon,
     credentials |-> [utownfbs_username |-> userCreds.utownfbs_username,
                      utownfbs_password |-> userCreds.utownfbs_password]]

\* A command has come in and its handler has not run yet.
Received(from, file, args) ==
    [at |-> "received", from |-> from, file |-> file, args |-> args,
     locals |-> Parsed(BaseCommand), chat |-> <<>>, unhandled |-> FALSE]

\* Lines 1246 to 1329, up to the first await: the checks, then the reply
\* that refuses or the status message.
AdminChecks ==
    /\ cmd.at = "received"
    /\ IF AuthorizationThrows(cmd.from, cmd.file)
       THEN cmd' = [cmd EXCEPT !.at = "apologising"]
       ELSE IF Refusal(cmd.from, cmd.file, cmd.args) # ""
       THEN cmd' = [cmd EXCEPT !.at = "refusing"]
       ELSE cmd' = [cmd EXCEPT !.at = "status", !.locals = Parsed(cmd.args)]
    /\ UNCHANGED <<call, conc, handler, cal, sheets, sync>>

\* The reply that refuses is sent and the handler returns.
AdminRefused ==
    /\ cmd.at = "refusing"
    /\ cmd' = [cmd EXCEPT !.at = "done",
                          !.chat = Append(@, Refusal(cmd.from, cmd.file, cmd.args))]
    /\ UNCHANGED <<call, conc, handler, cal, sheets, sync>>

\* ctx.reply rejects, for the refusal or for the status message: the outer
\* catch, lines 1417 to 1420.
AdminReplyRejects ==
    /\ cmd.at \in {"refusing", "status"}
    /\ cmd' = [cmd EXCEPT !.at = "apologising"]
    /\ UNCHANGED <<call, conc, handler, cal, sheets, sync>>

\* Line 1419: the reply of the outer catch is sent.
AdminApologised ==
    /\ cmd.at = "apologising"
    /\ cmd' = [cmd EXCEPT !.at = "done",
                          !.chat = Append(@, "An error occurred while processing your request.")]
    /\ UNCHANGED <<call, conc, handler, cal, sheets, sync>>

\* Line 1419: the reply of the outer catch rejects, and so does the handler.
AdminApologyRejects ==
    /\ cmd.at = "apologising"
    /\ cmd' = [cmd EXCEPT !.at = "done", !.unhandled = TRUE]
    /\ UNCHANGED <<call, conc, handler, cal, sheets, sync>>

\* Lines 1329 to 1357: the status message is sent, the sender's entry is
\* looked up and bookSlot is called with it; with no entry, the inner catch
\* shows the failure.
AdminCallsBookSlot ==
    /\ cmd.at = "status"
    /\ pc = "uncalled"
    /\ LET userCreds == Find(cmd.file.users, cmd.from.id)
       IN  IF userCreds = <<>>
           THEN /\ cmd' = [cmd EXCEPT !.at = "done",
                                      !.chat = Append(@, "Processing FBS booking request...")]
                /\ handler' = [handler EXCEPT !.at = "done",
                                  !.failure = <<"Could not find your FBS credentials.">>]
                /\ UNCHANGED <<pc, req>>
           ELSE /\ cmd' = [cmd EXCEPT !.at = "called",
                                      !.chat = Append(@, "Processing FBS booking request...")]
                /\ req' = BookSlotArguments(cmd, userCreds[1])
                /\ pc' = "idle"
                /\ UNCHANGED handler
    /\ UNCHANGED <<ip, loc, mem, browser, form, held, page, pending, outcome, trace, disk,
                   conc, cal, sheets, sync>>

\* An admin_bookfbs command from any sender, with any credentials file.
InitAdmin ==
    /\ pc = "uncalled"
    /\ ip = 0
    /\ req = NoRequest
    /\ loc = NoLocals
    /\ mem = NoMem
    /\ browser = "null"
    /\ form = NoForm
    /\ held = {}
    /\ page = NoPage
    /\ pending = NoCompletion
    /\ outcome = NoCompletion
    /\ trace = <<>>
    /\ disk = {}
    /\ conc = NoConc
    /\ handler = NoHandler
    /\ cmd \in {Received(from, file, args) :
                   from \in Senders, file \in CredentialFiles, args \in Commands}
    /\ cal = NoCal
    /\ sheets = NoSheets
    /\ sync = NoSync

\* The handler up to the call, and the checks bookSlot makes as it is called.
NextAdmin ==
    \/ AdminChecks
    \/ AdminRefused \/ AdminReplyRejects
    \/ AdminApologised \/ AdminApologyRejects
    \/ AdminCallsBookSlot
    \/ CallValid

SpecAdmin == InitAdmin /\ [][NextAdmin]_vars

\* -------------------------------------- book.ts, the BookingCalendar

\* Booking flows started in one chat.
MaxFlows == 2

\* Callback queries of one chat being handled at the same time.
MaxInFlight == 2

\* Callback queries of one chat that arrive while another is being handled.
MaxOverlaps == 1

\* Days on the date keyboard (dateRangeDays).
MaxDays == 2

\* Time slots of a day, two to the hour (timeStepMinutes: 30).
MaxSlots == 3

\* Booking-creation requests counted for one flow.
MaxPosts == 2

Days == 1..MaxDays

Slots == 1..MaxSlots

Flows == 1..MaxFlows

Handlers == 1..MaxInFlight

\* The ids a "book_venue_N" button can carry; /^book_venue_(\d+)$/ takes 0.
ButtonVenues == {0, 1}

\* DateTime.local(): the clock stands before the first slot of the first day.
Now == 0

\* startDate.set({hour, minute}): a date and a time of day as one instant.
\* Every day has one more instant than slots, the end of its last slot.
Instant(date, time) == (date - 1) * (MaxSlots + 1) + time

\* The hour a slot lies in: the inner loop runs over the minutes of one hour.
HourOf(time) == (time + 1) \div 2

\* One entry of response.items: start_time and end_time as instants.
Booked(from, to) == [start |-> from, end |-> to]

\* What the API may hold for the venue: nothing, the second slot of the first
\* day, or the whole of the last day.
BookingLists ==
    { {},
      {Booked(Instant(1, 2), Instant(1, 3))},
      {Booked(Instant(MaxDays, 1), Instant(MaxDays, MaxSlots) + 1)} }

\* existingBookings?.some(...) of generateTimeSlots.
IsBooked(slotDate, isStartTime, existingBookings) ==
    \E booking \in existingBookings :
        IF isStartTime
        THEN slotDate >= booking.start /\ slotDate < booking.end
        ELSE slotDate > booking.start /\ slotDate <= booking.end

\* The start of the first booking after startDateTime; 0 is null.  A
\* startDateTime of 0 is undefined.
EarliestNextBookingStart(startDateTime, existingBookings) ==
    LET later == {booking.start : booking \in
                     {b \in existingBookings : b.start > startDateTime}}
    IN IF startDateTime = 0 \/ later = {} THEN 0
       ELSE CHOOSE s \in later : \A o \in later : s <= o

RECURSIVE SlotsFrom(_, _, _, _, _, _)

\* The two loops of generateTimeSlots from slot `time` on.  `break` leaves the
\* loop over the minutes, so the next slot looked at is the first of the next
\* hour; `continue` goes to the next slot.
SlotsFrom(time, date, now, isStartTime, startDateTime, existingBookings) ==
    IF time > MaxSlots THEN {}
    ELSE
        LET slotDate == Instant(date, time)
            next == SlotsFrom(time + 1, date, now, isStartTime, startDateTime,
                              existingBookings)
            nextHour == SlotsFrom(2 * HourOf(time) + 1, date, now, isStartTime,
                                  startDateTime, existingBookings)
            earliest == EarliestNextBookingStart(startDateTime, existingBookings)
        IN IF IsBooked(slotDate, isStartTime, existingBookings) THEN next
           ELSE IF ~isStartTime /\ earliest # 0 /\ slotDate > earliest THEN nextHour
           ELSE IF ~isStartTime /\ startDateTime # 0 /\ slotDate <= startDateTime
                THEN next
           ELSE IF isStartTime THEN
                    (IF slotDate > now THEN {time} ELSE {}) \cup next
           ELSE IF startDateTime # 0 THEN
                    (IF slotDate > startDateTime THEN {time} ELSE {}) \cup next
           ELSE (IF slotDate > now THEN {time} ELSE {}) \cup next

\* The slots of the keyboard: the times of day `date` that can be chosen.
GenerateTimeSlots(date, now, isStartTime, startDateTime, existingBookings) ==
    SlotsFrom(1, date, now, isStartTime, startDateTime, existingBookings)

\* The slots renderEndTimeSelection offers.
EndSlots(startDateISO, startTime, endDateISO, existingBookings) ==
    IF startDateISO = endDateISO
    THEN GenerateTimeSlots(endDateISO, Now, FALSE,
                           Instant(startDateISO, startTime), existingBookings)
    ELSE GenerateTimeSlots(endDateISO, Now, TRUE, 0, existingBookings)

\* The slots renderStartTimeSelection offers.
StartSlots(dateISO, existingBookings) ==
    GenerateTimeSlots(dateISO, Now, TRUE, 0, existingBookings)

\* No currentBooking object; an unset field is 0.
NoBooking ==
    [step |-> "none", startDate |-> 0, startTime |-> 0, endDate |-> 0,
     endTime |-> 0, venue_id |-> 0]

\* The object startBookingFlow puts into the session.
NewBooking(venue_id) ==
    [step |-> "start_date", startDate |-> 0, startTime |-> 0, endDate |-> 0,
     endTime |-> 0, venue_id |-> venue_id]

\* No callback query in this place.
NoRun == [at |-> "idle", branch |-> "", val |-> 0, state |-> 0, args |-> <<>>]

\* A handler waiting at an await.
Run(at, branch, val, state, args) ==
    [at |-> at, branch |-> branch, val |-> val, state |-> state, args |-> args]

\* The data of a button.
Data(kind, val) == [kind |-> kind, val |-> val]

\* No time or end-date keyboard and no confirmation has been shown.
NoneOffered ==
    [start |-> {}, end |-> {}, endDates |-> FALSE, confirm |-> FALSE]

\* The session of one chat, the callback queries being handled, the venue's
\* bookings at the API, the buttons shown so far, the creation requests sent
\* for each flow and the number of queries that may still arrive while another
\* is being handled.  The buttons
\* "start_nav_N" and "end_nav_N" write the offsets of the date keyboard, which
\* the session here does not carry.
Session(bookings, overlaps) ==
    [at |-> "session",
     current |-> 0,
     started |-> 0,
     flow |-> [f \in Flows |-> NoBooking],
     run |-> [h \in Handlers |-> NoRun],
     bookings |-> bookings,
     offered |-> NoneOffered,
     posts |-> [f \in Flows |-> 0],
     overlaps |-> overlaps]

\* The buttons the chat shows.  A keyboard stays where it was shown: the next
\* one is sent as a new message when the edit fails (lines 299, 378, 405), and
\* every flow starts a message of its own (line 124).
Buttons(c) ==
    {Data("book_venue", v) : v \in ButtonVenues}
    \cup (IF c.started = 0 THEN {}
          ELSE {Data("start_date", d) : d \in Days}
               \cup {Data("cancel_booking", 0)})
    \cup {Data("start_time", t) : t \in c.offered.start}
    \cup {Data("end_time", t) : t \in c.offered.end}
    \cup (IF c.offered.end # {} THEN {Data("change_end_date", 0)} ELSE {})
    \cup (IF c.offered.endDates THEN {Data("end_date", d) : d \in Days} ELSE {})
    \cup (IF c.offered.confirm THEN {Data("confirm_booking", 0)} ELSE {})

\* The way handleCallbackQuery takes up to its first await.
Branch(c, data) ==
    IF c.current = 0 THEN "return"
    ELSE
        LET state == c.flow[c.current] IN
        IF data.kind = "cancel_booking" THEN "cancel"
        ELSE IF state.step = "start_date" /\ data.kind = "start_date" THEN "start_date"
        ELSE IF state.step = "start_time" /\ data.kind = "start_time" THEN "start_time"
        ELSE IF state.step = "end_date" /\ data.kind = "end_date" THEN "end_date"
        ELSE IF state.step = "end_time" /\ data.kind = "change_end_date"
             THEN "change_end_date"
        ELSE IF state.step = "end_time" /\ data.kind = "end_time" THEN "end_time"
        ELSE IF state.step = "confirm" /\ data.kind = "confirm_booking" THEN "confirm"
        ELSE "return"

\* Line 221: a field of the booking is unset.
Missing(state) ==
    \/ state.startDate = 0
    \/ state.startTime = 0
    \/ state.endDate = 0
    \/ state.endTime = 0
    \/ state.venue_id = 0

\* The argument of onBookingDataReady.
BookingData(state) ==
    [venue_id |-> state.venue_id,
     start_date |-> state.startDate, start_time |-> state.startTime,
     end_date |-> state.endDate, end_time |-> state.endTime]

\* Lines 593 and 598 of onBookingDataReady.
EndsTooEarly(state) ==
    LET startDT == Instant(state.startDate, state.startTime)
        endDT == Instant(state.endDate, state.endTime)
    IN endDT <= startDT \/ endDT <= Now

\* No callback query is being handled.
Quiet(c) == \A h \in Handlers : c.run[h].at = "idle"

\* The first place without a handler; 0 when the chat takes no further query.
Free(c) ==
    IF /\ \E h \in Handlers : c.run[h].at = "idle"
       /\ Quiet(c) \/ c.overlaps > 0
    THEN CHOOSE h \in Handlers :
             /\ c.run[h].at = "idle"
             /\ \A g \in Handlers : c.run[g].at = "idle" => h <= g
    ELSE 0

\* A handler begins in the first free place.
Began(c, r) ==
    [c EXCEPT !.run[Free(c)] = r,
              !.overlaps = IF Quiet(c) THEN @ ELSE @ - 1]

\* The objects that are still referred to: currentBooking and the `state` of
\* the handlers under way.  Any other object is gone.
Collected(c) ==
    [c EXCEPT !.flow =
        [f \in Flows |->
            IF f = c.current \/ \E h \in Handlers : c.run[h].state = f
            THEN c.flow[f] ELSE NoBooking]]

\* The variables the calendar leaves alone.
CalFrame == UNCHANGED <<call, conc, handler, cmd, sheets, sync>>

\* A "book_venue_N" button is pressed: the bot.action of line 881 answers the
\* query; the venues it then fetches and the list it edits change nothing a
\* handler reads.
CalVenuePressed ==
    /\ cal.at = "session"
    /\ Free(cal) # 0
    /\ cal.started + Cardinality({h \in Handlers : cal.run[h].at = "venue"}) < MaxFlows
    /\ \E v \in ButtonVenues :
           cal' = Collected(Began(cal, Run("venue", "book_venue", v, 0, <<>>)))
    /\ CalFrame

\* startBookingFlow: a new object replaces currentBooking.
CalFlowStarts ==
    /\ cal.at = "session"
    /\ \E h \in Handlers :
           /\ cal.run[h].at = "venue"
           /\ cal' = Collected([cal EXCEPT !.started = @ + 1,
                                 !.current = cal.started + 1,
                                 !.flow[cal.started + 1] = NewBooking(cal.run[h].val),
                                 !.run[h] = NoRun])
    /\ CalFrame

\* handleCallbackQuery up to its first await, for every button but
\* "confirm_booking" at step "confirm".
CalPressed ==
    /\ cal.at = "session"
    /\ Free(cal) # 0
    /\ \E data \in Buttons(cal) :
           /\ data.kind # "book_venue"
           /\ Branch(cal, data) \notin {"return", "confirm"}
           /\ cal' = Collected(Began(cal,
                         Run("answer", Branch(cal, data), data.val, cal.current, <<>>)))
    /\ CalFrame

\* "confirm_booking" at step "confirm" with a field unset: line 222.
CalConfirmMissing ==
    /\ cal.at = "session"
    /\ Free(cal) # 0
    /\ Data("confirm_booking", 0) \in Buttons(cal)
    /\ Branch(cal, Data("confirm_booking", 0)) = "confirm"
    /\ Missing(cal.flow[cal.current])
    /\ cal' = Collected(Began(cal, Run("answer", "missing", 0, cal.current, <<>>)))
    /\ CalFrame

\* "confirm_booking" at step "confirm": onBookingDataReady is called and runs
\* to its first await, the refusal of line 594 or 599 or the request of
\* line 617.
CalConfirms ==
    /\ cal.at = "session"
    /\ Free(cal) # 0
    /\ Data("confirm_booking", 0) \in Buttons(cal)
    /\ Branch(cal, Data("confirm_booking", 0)) = "confirm"
    /\ LET f == cal.current
           state == cal.flow[f]
       IN /\ ~Missing(state)
          /\ cal.posts[f] < MaxPosts
          /\ IF EndsTooEarly(state)
             THEN cal' = Collected(Began(cal,
                             Run("refused", "confirm", 0, f, BookingData(state))))
             ELSE cal' = Collected(Began([cal EXCEPT !.posts[f] = @ + 1],
                             Run("post", "confirm", 0, f, BookingData(state))))
    /\ CalFrame

\* What a handler does when answerCbQuery has resolved, up to its next await.
\* The handlers whose last await follows end here: what they show is on the
\* screen.
Answered(c, h) ==
    LET r == c.run[h]
        state == c.flow[r.state]
    IN CASE r.branch = "missing" -> [c EXCEPT !.run[h] = NoRun]
         [] r.branch = "cancel" -> [c EXCEPT !.current = 0, !.run[h] = NoRun]
         [] r.branch = "start_date" ->
                [c EXCEPT !.flow[r.state] =
                              [state EXCEPT !.startDate = r.val, !.step = "start_time"],
                          !.run[h] = Run("fetch", "start", 0, r.state, <<r.val>>)]
         [] r.branch = "start_time" ->
                [c EXCEPT !.flow[r.state] =
                              [state EXCEPT !.startTime = r.val,
                                            !.endDate = state.startDate,
                                            !.step = "end_time"],
                          !.run[h] = Run("fetch", "end", 0, r.state,
                                         <<state.startDate, r.val, state.startDate>>)]
         [] r.branch = "end_date" ->
                [c EXCEPT !.flow[r.state] =
                              [state EXCEPT !.endDate = r.val, !.step = "end_time"],
                          !.run[h] =
                              IF state.startTime = 0
                              THEN Run("apology", "end", 0, r.state, <<>>)
                              ELSE Run("fetch", "end", 0, r.state,
                                       <<state.startDate, state.startTime, r.val>>)]
         [] r.branch = "change_end_date" ->
                [c EXCEPT !.flow[r.state] = [state EXCEPT !.step = "end_date"],
                          !.offered.endDates = TRUE,
                          !.run[h] = NoRun]
         [] r.branch = "end_time" ->
                [c EXCEPT !.flow[r.state] =
                              [state EXCEPT !.endTime = r.val, !.step = "confirm"],
                          !.offered.confirm = TRUE,
                          !.run[h] = NoRun]

\* answerCbQuery resolves.
CalAnswered ==
    /\ cal.at = "session"
    /\ \E h \in Handlers :
           /\ cal.run[h].at = "answer"
           /\ cal' = Collected(Answered(cal, h))
    /\ CalFrame

\* The slots a render makes of the list it fetched.
SlotsOf(r, existingBookings) ==
    IF r.branch = "start"
    THEN StartSlots(r.args[1], existingBookings)
    ELSE EndSlots(r.args[1], r.args[2], r.args[3], existingBookings)

\* The bookings arrive and the keyboard of the slots is shown; the keyboard of
\* the end times has the button "change_end_date" too.
CalKeyboard ==
    /\ cal.at = "session"
    /\ \E h \in Handlers :
           LET r == cal.run[h]
               slots == SlotsOf(r, cal.bookings)
           IN /\ r.at = "fetch"
              /\ slots # {}
              /\ cal' = Collected(
                            IF r.branch = "start"
                            THEN [cal EXCEPT !.offered.start = @ \cup slots,
                                             !.run[h] = NoRun]
                            ELSE [cal EXCEPT !.offered.end = @ \cup slots,
                                             !.run[h] = NoRun])
    /\ CalFrame

\* The bookings arrive and there is no slot: the message of line 274 or 356
\* is being sent.
CalNoSlots ==
    /\ cal.at = "session"
    /\ \E h \in Handlers :
           LET r == cal.run[h] IN
           /\ r.at = "fetch"
           /\ SlotsOf(r, cal.bookings) = {}
           /\ cal' = Collected([cal EXCEPT !.run[h] = [r EXCEPT !.at = "sorry"]])
    /\ CalFrame

\* Lines 277 and 359: the step of ctx.session.currentBooking goes back.  With
\* no currentBooking the assignment throws and the catch of the render
\* apologises.
StepBack(c, h) ==
    LET r == c.run[h] IN
    IF c.current = 0 THEN [c EXCEPT !.run[h] = NoRun]
    ELSE [c EXCEPT !.flow[c.current].step =
                       IF r.branch = "start" THEN "start_date" ELSE "end_date",
                   !.run[h] = NoRun]

\* The message that there is no slot has been sent.
CalStepsBack ==
    /\ cal.at = "session"
    /\ \E h \in Handlers :
           /\ cal.run[h].at = "sorry"
           /\ cal' = Collected(StepBack(cal, h))
    /\ CalFrame

\* An awaited call rejects and the handler ends: answerCbQuery (the rejection
\* leaves handleCallbackQuery, or the bot.action at line 886), the fetch of
\* the bookings (the catch of the render apologises); or the apology or
\* refusal a handler was sending has gone out.
CalEnds ==
    /\ cal.at = "session"
    /\ \E h \in Handlers :
           /\ cal.run[h].at \in {"answer", "fetch", "venue", "apology", "refused"}
           /\ cal' = Collected([cal EXCEPT !.run[h] = NoRun])
    /\ CalFrame

\* The creation request succeeds: the venues are fetched and the summary
\* is shown.
CalPosted ==
    /\ cal.at = "session"
    /\ \E h \in Handlers :
           /\ cal.run[h].at = "post"
           /\ cal' = Collected([cal EXCEPT !.run[h].at = "summary"])
    /\ CalFrame

\* The creation request fails: the failure is shown.
CalPostRejects ==
    /\ cal.at = "session"
    /\ \E h \in Handlers :
           /\ cal.run[h].at = "post"
           /\ cal' = Collected([cal EXCEPT !.run[h].at = "failed"])
    /\ CalFrame

\* Lines 651, 706 and 729: delete ctx.session.currentBooking.
CalDeletes ==
    /\ cal.at = "session"
    /\ \E h \in Handlers :
           /\ cal.run[h].at \in {"summary", "failed"}
           /\ cal' = Collected([cal EXCEPT !.current = 0, !.run[h] = NoRun])
    /\ CalFrame

\* bookSlot is not called.
NotCalled ==
    /\ pc = "uncalled"
    /\ ip = 0
    /\ req = NoRequest
    /\ loc = NoLocals
    /\ mem = NoMem
    /\ browser = "null"
    /\ form = NoForm
    /\ held = {}
    /\ page = NoPage
    /\ pending = NoCompletion
    /\ outcome = NoCompletion
    /\ trace = <<>>
    /\ disk = {}
    /\ conc = NoConc
    /\ handler = NoHandler

\* A chat that has started no flow, with any of the booking lists.
InitCalendar ==
    /\ NotCalled
    /\ cmd = NoCmd
    /\ cal \in {Session(bookings, MaxOverlaps) : bookings \in BookingLists}
    /\ sheets = NoSheets
    /\ sync = NoSync

\* The same chat with its callback queries handled one after another.
InitSerial ==
    /\ NotCalled
    /\ cmd = NoCmd
    /\ cal \in {Session(bookings, 0) : bookings \in BookingLists}
    /\ sheets = NoSheets
    /\ sync = NoSync

NextCalendar ==
    \/ CalVenuePressed \/ CalFlowStarts
    \/ CalPressed \/ CalConfirmMissing \/ CalConfirms
    \/ CalAnswered
    \/ CalKeyboard \/ CalNoSlots \/ CalStepsBack
    \/ CalEnds
    \/ CalPosted \/ CalPostRejects \/ CalDeletes

SpecCalendar == InitCalendar /\ [][NextCalendar]_vars

NextSerial == NextCalendar

SpecSerial == InitSerial /\ [][NextSerial]_vars

\* ------------------- VenueDataService.ts, GoogleSheetsService's hashes

\* Venues in the list every call is given.
MaxVenues == 2

\* The bookings of one venue are one of the versions 0 (none) to MaxVersions.
MaxVersions == 1

SheetVenues == 1..MaxVenues

\* The arguments of updateVenueBookings: for each venue of `venues`, the
\* bookings `bookings` holds for it.
Datas == [SheetVenues -> 0..MaxVersions]

\* No call has returned.
NoData == <<>>

\* An empty cell of the Metadata sheet, or no row.
NoHash == <<>>

\* calculateGlobalHash: the digest of JSON.stringify({bookings, venues});
\* two digests are equal when the texts are.
CalculateGlobalHash(data) == <<"sha256", data>>

\* calculateVenueHash: the digest of the venue and its bookings.
CalculateVenueHash(venue, data) == <<"sha256", venue, data[venue]>>

\* The rows updateSummarySheet adds: one for each booking.
SummaryRows(data) == {<<venue, data[venue]>> : venue \in {v \in SheetVenues : data[v] # 0}}

\* The timetable updateVenueTimetable writes for a venue.
Timetable(venue, data) == <<"timetable", venue, data[venue]>>

\* The Summary sheet among the sheets a call rewrote; a timetable is there
\* by the number of its venue.
SummarySheet == 0

\* A timetable sheet that was cleared and not filled.
Blank == <<"blank">>

\* No timetable sheet.
NoTimetable == <<>>

\* A mutant: the global hash always counts as changed.
GlobalChangedAlways(existingHash, newHash) == TRUE

\* Lines 206 and 216: there is no global row, or it holds another hash.
GlobalChanged(existingHash, newHash) == existingHash # newHash

\* Lines 243 and 253: there is no row for the venue, or it holds another hash.
VenueChanged(existingHash, newHash) == existingHash # newHash

\* The spreadsheet before the first call, and no call under way.
NewSpreadsheet ==
    [at |-> "idle",
     venue |-> 0,
     data |-> NoData,
     globalHash |-> NoHash,
     venueHash |-> [v \in SheetVenues |-> NoHash],
     summary |-> {},
     timetable |-> [v \in SheetVenues |-> NoTimetable],
     rewrote |-> {},
     hashesBefore |-> <<>>,
     previous |-> NoData,
     ended |-> "none"]

\* The hashes the Metadata sheet holds.
StoredHashes(s) == <<s.globalHash, s.venueHash>>

\* The variables updateVenueBookings leaves alone.
SheetsFrame == UNCHANGED <<call, conc, handler, cmd, cal, sync>>

\* updateVenueBookings is called with the bookings and venues fetched; it
\* awaits doc.loadInfo().
SheetsCalled ==
    /\ sheets.at = "idle"
    /\ \E data \in Datas :
           sheets' = [sheets EXCEPT !.at = "info",
                                    !.data = data,
                                    !.rewrote = {},
                                    !.hashesBefore = StoredHashes(sheets),
                                    !.previous = IF sheets.ended = "returned"
                                                 THEN sheets.data ELSE NoData,
                                    !.ended = "none"]
    /\ SheetsFrame

\* loadInfo and setupMetadataSheet are done: checkAndUpdateGlobalHash awaits
\* the rows.
SheetsLoaded ==
    /\ sheets.at = "info"
    /\ sheets' = [sheets EXCEPT !.at = "global"]
    /\ SheetsFrame

\* The position at the head of the loop over the venues, or past it.
VenueLoop(s, venue) ==
    IF venue > MaxVenues
    THEN [s EXCEPT !.at = "idle", !.venue = 0, !.ended = "returned"]
    ELSE [s EXCEPT !.at = "venue", !.venue = venue]

\* The rows arrive: with the hash unchanged the loop over the venues begins,
\* otherwise the global row is added or saved.
SheetsGlobalChecked ==
    /\ sheets.at = "global"
    /\ sheets' = IF GlobalChanged(sheets.globalHash, CalculateGlobalHash(sheets.data))
                 THEN [sheets EXCEPT !.at = "globalSave"]
                 ELSE [sheets EXCEPT !.at = "venue", !.venue = 1]
    /\ SheetsFrame

\* addRow or globalRow.save() resolves: the new hash is stored, and
\* updateSummarySheet awaits addSheet or clearRows.
SheetsGlobalSaved ==
    /\ sheets.at = "globalSave"
    /\ sheets' = [sheets EXCEPT !.globalHash = CalculateGlobalHash(sheets.data),
                                !.at = "summary"]
    /\ SheetsFrame

\* The Summary sheet is new or cleared; with no booking nothing is added.
SheetsSummaryCleared ==
    /\ sheets.at = "summary"
    /\ sheets' = IF SummaryRows(sheets.data) = {}
                 THEN [sheets EXCEPT !.summary = {},
                                     !.rewrote = @ \cup {SummarySheet},
                                     !.at = "venue", !.venue = 1]
                 ELSE [sheets EXCEPT !.summary = {},
                                     !.rewrote = @ \cup {SummarySheet},
                                     !.at = "summaryRows"]
    /\ SheetsFrame

\* sheet.addRows(rows) resolves.
SheetsSummaryFilled ==
    /\ sheets.at = "summaryRows"
    /\ sheets' = [sheets EXCEPT !.summary = SummaryRows(sheets.data),
                                !.at = "venue", !.venue = 1]
    /\ SheetsFrame

\* checkAndUpdateVenueHash has the rows: with the venue's hash unchanged the
\* loop goes on, otherwise the venue's row is added or saved.
SheetsVenueChecked ==
    /\ sheets.at = "venue"
    /\ sheets' = IF VenueChanged(sheets.venueHash[sheets.venue],
                                 CalculateVenueHash(sheets.venue, sheets.data))
                 THEN [sheets EXCEPT !.at = "venueSave"]
                 ELSE VenueLoop(sheets, sheets.venue + 1)
    /\ SheetsFrame

\* addRow or venueRow.save() resolves: the venue's new hash is stored, and
\* updateVenueTimetable awaits addSheet or clear.
SheetsVenueSaved ==
    /\ sheets.at = "venueSave"
    /\ sheets' = [sheets EXCEPT !.venueHash[sheets.venue] =
                                    CalculateVenueHash(sheets.venue, sheets.data),
                                !.at = "timetable"]
    /\ SheetsFrame

\* sheet.clear() resolves.
SheetsTimetableCleared ==
    /\ sheets.at = "timetable"
    /\ sheets' = [sheets EXCEPT !.timetable[sheets.venue] = Blank,
                                !.rewrote = @ \cup {sheets.venue},
                                !.at = "timetableRows"]
    /\ SheetsFrame

\* The header row, the rows and the colours are written.
SheetsTimetableFilled ==
    /\ sheets.at = "timetableRows"
    /\ sheets' = VenueLoop([sheets EXCEPT !.timetable[sheets.venue] =
                                              Timetable(sheets.venue, sheets.data)],
                           sheets.venue + 1)
    /\ SheetsFrame

\* An awaited call of the spreadsheet rejects: updateVenueBookings throws.
SheetsFails ==
    /\ sheets.at \notin {"none", "idle"}
    /\ sheets' = [sheets EXCEPT !.at = "idle", !.venue = 0, !.ended = "thrown"]
    /\ SheetsFrame

\* A new spreadsheet.
InitSheets ==
    /\ NotCalled
    /\ cmd = NoCmd
    /\ cal = NoCal
    /\ sheets = NewSpreadsheet
    /\ sync = NoSync

NextSheets ==
    \/ SheetsCalled \/ SheetsLoaded
    \/ SheetsGlobalChecked \/ SheetsGlobalSaved
    \/ SheetsSummaryCleared \/ SheetsSummaryFilled
    \/ SheetsVenueChecked \/ SheetsVenueSaved
    \/ SheetsTimetableCleared \/ SheetsTimetableFilled
    \/ SheetsFails

SpecSheets == InitSheets /\ [][NextSheets]_vars

\* Every venue has the bookings of version 1.
AllBooked == [v \in SheetVenues |-> 1]

\* The spreadsheet a call for AllBooked leaves that threw after it had stored
\* the global hash, and the one a call leaves that threw after it had
\* rewritten the Summary, stored the hash of venue 1 and cleared its timetable.
Interrupted ==
    { [NewSpreadsheet EXCEPT !.data = AllBooked,
                             !.ended = "thrown",
                             !.hashesBefore = StoredHashes(NewSpreadsheet),
                             !.globalHash = CalculateGlobalHash(AllBooked)],
      [NewSpreadsheet EXCEPT !.data = AllBooked,
                             !.ended = "thrown",
                             !.hashesBefore = StoredHashes(NewSpreadsheet),
                             !.globalHash = CalculateGlobalHash(AllBooked),
                             !.summary = SummaryRows(AllBooked),
                             !.rewrote = {SummarySheet, 1},
                             !.venueHash[1] = CalculateVenueHash(1, AllBooked),
                             !.timetable[1] = Blank] }

\* A new spreadsheet, or one an interrupted call left.
InitTwice ==
    /\ NotCalled
    /\ cmd = NoCmd
    /\ cal = NoCal
    /\ sheets \in {NewSpreadsheet} \cup Interrupted
    /\ sync = NoSync

\* Calls of updateVenueBookings that return.
NextTwice ==
    \/ SheetsCalled \/ SheetsLoaded
    \/ SheetsGlobalChecked \/ SheetsGlobalSaved
    \/ SheetsSummaryCleared \/ SheetsSummaryFilled
    \/ SheetsVenueChecked \/ SheetsVenueSaved
    \/ SheetsTimetableCleared \/ SheetsTimetableFilled

SpecTwice == InitTwice /\ [][NextTwice]_vars

\* ------------------- unnamed/part_003, updateVenueDataInSheets retrying

\* The errors an attempt may be rejected with.
MaxErrors == 2

Errors == 1..MaxErrors

\* The outcome of an attempt that resolved.
Fetched == 0

\* A mutant: four attempts.
RetriesFour == 3 + 1

\* Lines 15 and 34: let retries = 3.
Retries == 3

\* Bun.env: GOOGLE_SHEETS_ID is set or not, and so are the credentials the
\* constructor of GoogleSheetsService wants.
Environments == [spreadsheetId : BOOLEAN, credentials : BOOLEAN]

\* Nothing was returned or thrown.
Running == [kind |-> "none", value |-> 0]

\* The error `value` was thrown to the caller.
Thrown(value) == [kind |-> "thrown", value |-> value]

\* The object with `success` was returned.
Result(success) == [kind |-> "returned", value |-> IF success THEN 1 ELSE 0]

\* The errors the function itself throws: lines 10 and 123 of
\* GoogleSheetsService, and a rejection of updateVenueBookings.
MissingId == MaxErrors + 1

MissingCredentials == MaxErrors + 2

UpdateFailed == MaxErrors + 3

\* A call of updateVenueDataInSheets not yet made: the outcomes of the
\* attempts of each fetch, the lengths of the lists fetched, the calls of
\* updateVenueBookings.
NewSync(env) ==
    [at |-> "idle",
     env |-> env,
     retries |-> 0,
     tried |-> [venues |-> <<>>, bookings |-> <<>>],
     items |-> [venues |-> 0, bookings |-> 0],
     updates |-> 0,
     outcome |-> Running]

\* The variables updateVenueDataInSheets leaves alone.
SyncFrame == UNCHANGED <<call, conc, handler, cmd, cal, sheets>>

\* The function is called: without GOOGLE_SHEETS_ID it throws, otherwise the
\* first fetch of the venues is awaited.
SyncCalled ==
    /\ sync.at = "idle"
    /\ sync' = IF ~sync.env.spreadsheetId
               THEN [sync EXCEPT !.at = "done", !.outcome = Thrown(MissingId)]
               ELSE [sync EXCEPT !.at = "venues", !.retries = Retries]
    /\ SyncFrame

\* What follows the loop of the bookings: the return of line 54, the throw of
\* the constructor, or the call of updateVenueBookings.
AfterFetches(s) ==
    IF s.items.venues = 0 \/ s.items.bookings = 0
    THEN [s EXCEPT !.at = "done", !.outcome = Result(FALSE)]
    ELSE IF ~s.env.credentials
    THEN [s EXCEPT !.at = "done", !.outcome = Thrown(MissingCredentials)]
    ELSE [s EXCEPT !.at = "update", !.updates = @ + 1]

\* The fetch of the venues resolves with a list, empty or not: break, and the
\* first fetch of the bookings is awaited.
SyncVenuesFetched ==
    /\ sync.at = "venues"
    /\ \E length \in 0..1 :
           sync' = [sync EXCEPT !.tried.venues = Append(@, Fetched),
                                !.items.venues = length,
                                !.retries = Retries,
                                !.at = "bookings"]
    /\ SyncFrame

\* The fetch of the bookings resolves.
SyncBookingsFetched ==
    /\ sync.at = "bookings"
    /\ \E length \in 0..1 :
           sync' = AfterFetches([sync EXCEPT !.tried.bookings = Append(@, Fetched),
                                             !.items.bookings = length])
    /\ SyncFrame

\* Lines 26-28 and 47-49: one retry less; with none left the error is thrown,
\* through the catch of line 71, otherwise a second is waited.
Caught(s, which, error) ==
    LET t == [s EXCEPT !.tried[which] = Append(@, error), !.retries = @ - 1] IN
    IF t.retries = 0
    THEN [t EXCEPT !.at = "done", !.outcome = Thrown(error)]
    ELSE [t EXCEPT !.at = IF which = "venues" THEN "venuesWait" ELSE "bookingsWait"]

\* The fetch of the venues rejects.
SyncVenuesRejected ==
    /\ sync.at = "venues"
    /\ \E error \in Errors : sync' = Caught(sync, "venues", error)
    /\ SyncFrame

\* The fetch of the bookings rejects.
SyncBookingsRejected ==
    /\ sync.at = "bookings"
    /\ \E error \in Errors : sync' = Caught(sync, "bookings", error)
    /\ SyncFrame

\* The timer of line 28 or 49 fires: the loop tests retries and fetches again.
SyncWaited ==
    /\ sync.at \in {"venuesWait", "bookingsWait"}
    /\ sync.retries > 0
    /\ sync' = [sync EXCEPT !.at = IF sync.at = "venuesWait" THEN "venues" ELSE "bookings"]
    /\ SyncFrame

\* updateVenueBookings resolves.
SyncUpdated ==
    /\ sync.at = "update"
    /\ sync' = [sync EXCEPT !.at = "done", !.outcome = Result(TRUE)]
    /\ SyncFrame

\* updateVenueBookings rejects.
SyncUpdateRejected ==
    /\ sync.at = "update"
    /\ sync' = [sync EXCEPT !.at = "done", !.outcome = Thrown(UpdateFailed)]
    /\ SyncFrame

\* A call about to be made, in any environment.
InitSync ==
    /\ NotCalled
    /\ cmd = NoCmd
    /\ cal = NoCal
    /\ sheets = NoSheets
    /\ sync \in {NewSync(env) : env \in Environments}

NextSync ==
    \/ SyncCalled
    \/ SyncVenuesFetched \/ SyncVenuesRejected
    \/ SyncBookingsFetched \/ SyncBookingsRejected
    \/ SyncWaited
    \/ SyncUpdated \/ SyncUpdateRejected

SpecSync == InitSync /\ [][NextSync]_vars

\* Every awaited request settles and every timer fires.
SpecSyncFair == SpecSync /\ WF_vars(NextSync)

\* --------------------------------------------------------------- claims

Settled == pc = "done"

Leaving == pc \in {"finally", "done"}

Executed(what) == \E i \in 1..Len(trace) : trace[i] = StepOf(what)

\* The statement at row `what` is the one that ended the try, by a throw of
\* the code's own or a rejection the code gives a meaning to, not by an
\* error of the browser.
EndedAt(what) == Leaving /\ ip = StepOf(what) /\ pending.kind \notin {"BrowserError", "Returned"}

\* The text of the error element was read (line 296) and classified.
ErrorTextRead == EndedAt("read errorMessage")

InvalidTimeText(raw) == ~raw.null /\ (Includes(raw.s, S30) \/ Includes(raw.s, ELS))

SlotTakenText(raw) == ~raw.null /\ Includes(raw.s, SLOT)

\* C1: every attempt that launched a browser has closed it when it ends, on a
\* return and on every kind of throw; an attempt that never launched one has
\* none.
C1_BrowserClosedOnExit ==
    Settled => browser = (IF Executed("launch") THEN "closed" ELSE "null")

C1_Witness ==
    /\ Settled
    /\ browser = "closed"
    /\ outcome.kind = "ExpectedElementNotFound"

\* C2 (the claim's second half): a request whose end date-time is not after
\* its start date-time never ends in a returned reference.
C2_EndNotAfterStartNeverSucceeds ==
    (Settled /\ Validate(req) = "" /\ EndNotAfterStart(req.startTime, req.endTime))
        => outcome.kind # "Returned"

\* C3: a successful attempt hands the caller a non-empty reference and the
\* path of a screenshot file that is on disk.
C3_SuccessReturnsReferenceAndScreenshot ==
    (Settled /\ outcome.kind = "Returned")
        => /\ outcome.value.bookingId # <<>>
           /\ outcome.value.confirmationScreenshot \in disk

\* C4: an error text holding one of the two invalid-time substrings ends the
\* attempt with InvalidBookingTimeException carrying the trimmed text.
C4_InvalidTimeClassified ==
    (ErrorTextRead /\ InvalidTimeText(mem.raw))
        => /\ pending = Err("InvalidBookingTimeException", Trim(mem.raw.s))
           /\ (Settled => outcome = pending)

C4_Witness ==
    /\ Settled
    /\ outcome.kind = "InvalidBookingTimeException"
    /\ Includes(mem.raw.s, ELS)
    /\ Len(outcome.msg) < Len(mem.raw.s)

\* C5: an error text holding the slot-taken substring and neither invalid-time
\* substring ends the attempt with SlotTakenException carrying the text.
C5_SlotTakenClassified ==
    (ErrorTextRead /\ SlotTakenText(mem.raw) /\ ~InvalidTimeText(mem.raw))
        => /\ pending = Err("SlotTakenException", Trim(mem.raw.s))
           /\ (Settled => outcome = pending)

C5_Witness ==
    /\ Settled
    /\ outcome.kind = "SlotTakenException"
    /\ Includes(outcome.msg, SLOT)

\* C6: a non-empty error text holding none of the three substrings ends the
\* attempt with a plain Error carrying the text, never with one of the two
\* typed exceptions and never with a return.
C6_UnknownTextIsGeneric ==
    (ErrorTextRead /\ ~mem.raw.null /\ Trim(mem.raw.s) # <<>>
        /\ ~InvalidTimeText(mem.raw) /\ ~SlotTakenText(mem.raw))
        => /\ pending = Err("Error", <<"Booking failed: ">> \o Trim(mem.raw.s))
           /\ (Settled => outcome = pending)

C6_Witness ==
    /\ Settled
    /\ outcome.kind = "Error"
    /\ Includes(outcome.msg, X)

\* C7: an error element with no text (null, empty or blank) ends the attempt
\* with the plain Error for an unknown error without message.
C7_EmptyTextIsUnknownError ==
    (ErrorTextRead /\ (mem.raw.null \/ Trim(mem.raw.s) = <<>>))
        => /\ pending = Err("Error", <<"Booking failed with an unknown error (no message).">>)
           /\ (Settled => outcome = pending)

C7_Witness ==
    /\ Settled
    /\ ErrorTextRead
    /\ ~mem.raw.null
    /\ mem.raw.s = <<>>
    /\ outcome.kind = "Error"

NoReferenceError ==
    Err("Error", <<"No booking reference number found, booking might have failed silently.">>)

\* The error element was probed and was not there.
ProbedAbsent == Executed("errorMsgElement") /\ ~mem.errorMsgElement

\* C8: with the error element absent and no reference to be read,
\* the table never appearing included, the attempt ends with the
\* no-reference error (unless the browser itself fails).
C8_NoReferenceAlwaysReported ==
    (Settled /\ ProbedAbsent /\ page.verdict = "silent" /\ outcome.kind # "BrowserError")
        => outcome = NoReferenceError

\* C8, a case where the no-reference error is reported: the table is visible
\* and has no second cell.
C8_Witness ==
    /\ Settled
    /\ ProbedAbsent
    /\ Len(mem.cells) = 1
    /\ outcome = NoReferenceError

\* The window the request asks for overlaps a booking held before the attempt.
TargetsHeld ==
    /\ Validate(req) = ""
    /\ \E h \in held :
          Overlaps(Window(Field(req.startTime, 1), Field(req.startTime, 2)[1],
                          Field(req.endTime, 2)[1]), h)

GrowsForward(t, u) ==
    \/ u = t
    \/ /\ Len(u) = Len(t) + 1
       /\ SubSeq(u, 1, Len(t)) = t
       /\ Len(t) > 0 => u[Len(u)] > t[Len(t)]

Failed == Leaving /\ pending.kind # "Returned"

\* C10: no statement of the attempt runs twice or out of order, and once a
\* statement has failed nothing more is run: no step is added and the portal's
\* pages are left as they are.
C10_NoRetry ==
    [][/\ GrowsForward(trace, trace')
       /\ Failed => (trace' = trace /\ form' = form /\ page' = page /\ pending' = pending)]_vars

C10_Witness ==
    /\ Settled
    /\ Executed("click createBooking")
    /\ outcome.kind = "SlotTakenException"
    /\ Len(trace) >= 70

\* The stages of an attempt, in the order of the program.
StageOrder == <<"launch", "login", "search", "slot", "form", "submit", "evaluate">>

StageNum(stage) == CHOOSE n \in 1..Len(StageOrder) : StageOrder[n] = stage

StageAt(i) == StageNum(Prog[i].stage)

LastOfStage(i) == IF i = NumSteps THEN TRUE ELSE Prog[i + 1].stage # Prog[i].stage

InBody(p, i) == p = "body" /\ i \in 1..NumSteps

\* C11: control moves forward through the stages launch, login, search,
\* slot, form, submit, evaluate: the attempt starts at the first statement of
\* the launch stage; the statement about to run only moves to a later row, in
\* the same stage or the next one; it moves to the next stage only from the
\* last statement of the stage before, and only when that statement has
\* completed; after the first error no statement runs.
C11_StagesForward ==
    [][/\ (pc = "idle" /\ pc' = "body") => (ip' = 1 /\ StageAt(ip') = 1)
       /\ (InBody(pc, ip) /\ InBody(pc', ip') /\ ip' # ip)
            => /\ ip' > ip
               /\ StageAt(ip') \in {StageAt(ip), StageAt(ip) + 1}
               /\ StageAt(ip') # StageAt(ip)
                    => (LastOfStage(ip) /\ trace' = Append(trace, ip))
       /\ Failed => (pc' = "done" /\ ip' = ip /\ trace' = trace)]_vars

\* C11, an attempt that went through all seven stages and returned.
C11_Witness ==
    /\ Settled
    /\ outcome.kind = "Returned"
    /\ \A n \in 1..Len(StageOrder) : \E i \in 1..Len(trace) : StageAt(trace[i]) = n

\* The call ended in a throw, before the try or inside it.
Threw == Settled /\ outcome.kind # "Returned"

\* The kind of the failure that ended the call, by where it arose: a check of
\* the arguments, a rejection by the browser, a lookup that found nothing or a
\* wait for an element that never showed, an answer of the portal.
FailureKind ==
    IF ip = 0 THEN "invalid request"
    ELSE IF outcome.kind = "BrowserError" THEN "browser exception"
    ELSE IF Prog[ip].op \in {"query", "query2", "frame"} THEN "missing element"
    ELSE IF Prog[ip].op = "wait"
    THEN IF What = "bookingFrame navigation" THEN "browser exception" ELSE "missing element"
    ELSE "portal rejection"

\* The kind of failure each class of error stands for in the spec's taxonomy;
\* the plain Error stands for its BookingFailed.
KindOfType(type) ==
    CASE type = "ExpectedElementNotFound" -> "missing element"
      [] type \in {"InvalidBookingTimeException", "SlotTakenException", "Error"}
            -> "portal rejection"
      [] OTHER -> "browser exception"

RaisedAt ==
    CASE Prog[ip].op \in {"query", "query2", "frame"} ->
            {Err("ExpectedElementNotFound", <<Prog[ip].msg>>)}
      [] Prog[ip].op = "wait" -> {Err("TimeoutError", <<What>>)}
      [] Prog[ip].op = "classify" ->
            IF InvalidTimeText(mem.raw)
            THEN {Err("InvalidBookingTimeException", Trim(mem.raw.s))}
            ELSE IF SlotTakenText(mem.raw)
            THEN {Err("SlotTakenException", Trim(mem.raw.s))}
            ELSE {Err("Error", <<"Booking failed: ">> \o Trim(mem.raw.s)),
                  Err("Error", <<"Booking failed with an unknown error (no message).">>)}
      [] Prog[ip].op = "readref" -> {NoReferenceError}
      [] OTHER -> {}

NoSearchFrame == Executed("sleep 20000") /\ form.searchFrame = 0

\* C13: when the page has no frame of the search module after the delay that
\* follows the login, the attempt ends at the lookup of that frame with
\* ExpectedElementNotFound("Search Frame not found."); no statement after the
\* lookup has run, nothing was entered in the search form, and the browser is
\* closed when the caller gets the error.
C13_NoSearchFrame ==
    /\ (NoSearchFrame /\ pc = "body") => ip = StepOf("searchFrame")
    /\ (NoSearchFrame /\ Leaving)
          => /\ ip = StepOf("searchFrame")
             /\ pending = Err("ExpectedElementNotFound", <<"Search Frame not found.">>)
             /\ \A i \in 1..Len(trace) : trace[i] < StepOf("searchFrame")
             /\ form.facilType = "" /\ form.facility = <<>> /\ ~form.searched
             /\ page = NoPage
    /\ (NoSearchFrame /\ Settled) => (outcome = pending /\ browser = "closed")

C13_Witness ==
    /\ Settled
    /\ NoSearchFrame
    /\ outcome.kind = "ExpectedElementNotFound"
    /\ Len(trace) = StepOf("searchFrame") - 1

\* The calendar of the requested month has no cell for the requested day.
NoDayCell == Validate(req) = "" /\ ~CellExists(loc.month_parsed, loc.day_parsed)

LookupRows == {i \in 1..NumSteps : Prog[i].op \in {"query", "query2", "frame"}}

\* The element or frame a message of ExpectedElementNotFound names: one that
\* a statement with this message looks up.
ArtifactNamed(msg) ==
    CHOOSE a \in UNION {Artifacts(Prog[i].what) : i \in LookupRows} :
        \E i \in LookupRows : a \in Artifacts(Prog[i].what) /\ <<Prog[i].msg>> = msg

\* C14 as claimed: in the search stage a missing day cell ends the attempt at
\* the click on it with ExpectedElementNotFound (unless the browser fails),
\* and a missing element or frame ends it with an ExpectedElementNotFound
\* whose message names that element or frame and no other.
C14_SearchAbsenceIsNamed ==
    /\ (Leaving /\ NoDayCell /\ Executed("day7 start"))
          => /\ ip = StepOf("click day start")
             /\ pending.kind \in {"ExpectedElementNotFound", "BrowserError"}
    /\ (Leaving /\ ip # 0 /\ Prog[ip].stage = "search" /\ mem.missing # "")
          => /\ pending.kind = "ExpectedElementNotFound"
             /\ mem.missing = ArtifactNamed(pending.msg)

\* The search was made and the results frame shows no available element whose
\* id starts with the zero-padded YYYYMMDD of the requested date.
NoSlotShown ==
    /\ Executed("bookingCalFrame")
    /\ PortalId(loc.date) \notin AvailableIds(form, held)

EndedInLogin == Leaving /\ ip # 0 /\ Prog[ip].stage = "login"

Clicks(what) == Cardinality({i \in 1..Len(trace) : trace[i] = StepOf(what)})

\* C17: once the attempt is past a checkbox, the number of clicks it made on
\* it is 1 when the state it read differed from the requested one and 0 when
\* it did not, and the checkbox is in the requested state; door access and
\* air conditioning each by itself.
C17_ClickOnlyWhenDifferent ==
    /\ ip > StepOf("click doorAccess")
          => /\ Clicks("click doorAccess")
                    = (IF mem.isDoorAccessChecked # req.doorAccess THEN 1 ELSE 0)
             /\ form.door = req.doorAccess
    /\ ip > StepOf("click aircon")
          => /\ Clicks("click aircon")
                    = (IF mem.isAirconChecked # req.aircon THEN 1 ELSE 0)
             /\ form.aircon = req.aircon

\* C17, a form that loads with both boxes checked for a request that wants
\* door access and no air conditioning: one box left alone, one clicked.
C17_Witness ==
    /\ Settled
    /\ outcome.kind = "Returned"
    /\ req.doorAccess /\ mem.isDoorAccessChecked /\ Clicks("click doorAccess") = 0
    /\ ~req.aircon /\ mem.isAirconChecked /\ Clicks("click aircon") = 1

RECURSIVE PadStart2(_)
\* A digit string padded with zeros on the left to two digits.
PadStart2(s) == IF Len(s) < 2 THEN PadStart2(<<0>> \o s) ELSE s

\* C18: for every valid zero-padded date, the month and the day stripped of
\* their leading zeros and padded again to two digits are the month and the
\* day of the request, the year is the year of the request as written, and the
\* three put together are the date of the request.
C18_DecompositionLossless ==
    pc # "idle"
        => /\ PadStart2(loc.month_parsed) = req.startTime[1][2]
           /\ PadStart2(loc.day_parsed) = req.startTime[1][3]
           /\ loc.year = req.startTime[1][1]
           /\ <<loc.year, PadStart2(loc.month_parsed), PadStart2(loc.day_parsed)>>
                 = req.startTime[1]

\* C18, a date whose month loses its zero and whose day keeps its own:
\* "2024-09-10".
C18_Witness ==
    /\ pc # "idle"
    /\ req.startTime[1] = <<Digits4(2024), <<0, 9>>, <<1, 0>> >>
    /\ loc.month_parsed = <<9>>
    /\ loc.day_parsed = <<1, 0>>

\* C19: the value selected in the start-time dropdown is "1800/01/01", a
\* space and the time of day of the requested start, the one selected in the
\* end-time dropdown the same with the time of day of the requested end,
\* whatever the date of the booking; once the select statement has run the
\* dropdown holds that value.
C19_TimeDropdownsUseSentinel ==
    /\ form.from # <<>> => form.from = <<"1800/01/01">> \o Field(req.startTime, 2)
    /\ form.to # <<>> => form.to = <<"1800/01/01">> \o Field(req.endTime, 2)
    /\ Executed("select from") => form.from # <<>>
    /\ Executed("select to") => form.to # <<>>

\* C19, a booking on 2024-09-07 from time 1 to time 3.
C19_Witness ==
    /\ Settled
    /\ outcome.kind = "Returned"
    /\ req.startTime[1] = D1
    /\ form.bookDate = D1
    /\ form.from = <<"1800/01/01", 1>>
    /\ form.to = <<"1800/01/01", 3>>

\* A statement that goes through a frame handle is about to run.
UsesFrame == InBody(pc, ip) /\ Via(Prog[ip].what) \in FrameHandles

C21_EachAttemptOwnsItsBrowser ==
    /\ \A a \in Attempts :
           Cardinality({b \in 1..Len(conc.launchedBy) : conc.launchedBy[b] = a}) <= 1
    /\ \A u \in conc.acted : conc.launchedBy[conc.pageOf[u[2]]] = u[1]
    /\ \A u \in conc.closedBy : conc.launchedBy[u[2]] = u[1]
    /\ \A a \in Attempts :
           conc.at[a] \in {"opening", "body"} =>
               /\ BrowserOf(a) \in conc.open
               /\ conc.launchedBy[BrowserOf(a)] = a

\* Two calls overlapped: one has closed its browser and finished while the
\* other, launched before that close, has acted on its page and goes on.
C21_Witness ==
    \E a, b \in Attempts :
        /\ a # b
        /\ conc.at[a] = "done"
        /\ \E u \in conc.closedBy : u[1] = a
        /\ \E u \in conc.acted : u[1] = a
        /\ conc.at[b] = "body"
        /\ \E u \in conc.acted : u[1] = b
        /\ conc.browser[b] < conc.browser[a]

\* The checks of lines 69, 74 and 81, which come before the venue lookup,
\* pass for the request.
ReachesVenueLookup ==
    Validate(req) \notin {"Invalid date/time format for startTime or endTime.",
                          "Invalid date format. Expected YYYY-MM-DD.",
                          "Usage Type is not provided"}

\* C22: the element at position id-1 of the venue table has id `id`, for
\* every id from 1 to the table's length; a call whose locationID is such an
\* id goes on with the two tokens of the venue of that id and never fails
\* for its venue; a call with any other locationID (0, negative, past the
\* table, not an integer) that reaches the lookup fails with the
\* venue-not-found error, before any browser.
C22_VenueTableIndexedById ==
    /\ \A id \in 1..Len(VENUES) : VENUES[(id - 1) + 1].id = id
    /\ (pc # "idle" /\ ReachesVenueLookup) =>
           IF req.locationHalf = 0 /\ req.locationID \in 1..Len(VENUES)
           THEN /\ outcome.msg # <<"Venue not found for provided locationID.">>
                /\ pc = "body" =>
                       \E i \in 1..Len(VENUES) :
                           /\ VENUES[i].id = req.locationID
                           /\ loc.facil_type_value = VENUES[i].facil_type_value
                           /\ loc.location_value = VENUES[i].option_value
           ELSE /\ pc = "done"
                /\ outcome = Err("Error", <<"Venue not found for provided locationID.">>)
                /\ browser = "null"

\* The call for the last venue of the table has its tokens.
C22_Witness ==
    /\ pc = "body"
    /\ req.locationID = Len(VENUES)
    /\ req.locationHalf = 0
    /\ loc.location_value = <<"c79604f1">>

\* The caller's await has seen the call settle, with a value or with an error.
Observed(o) == o.kind # "none"

\* A completion is a returned reference or a thrown error, not both.
OneOutcome(o) ==
    IF o.kind = "Returned"
    THEN o.msg = <<>> /\ o.value.bookingId # Undefined
    ELSE o.value = NoValue

\* C23: a call that has ended has an outcome; the outcome is set once and
\* never replaced; it is a returned reference or a thrown error and not
\* both; and in the step that shows it to the caller the browser the call
\* launched, if it launched one, is closed.
C23_OneOutcomeAfterClose ==
    /\ [](Settled => Observed(outcome))
    /\ [][outcome' # outcome =>
              /\ ~Observed(outcome)
              /\ Observed(outcome')
              /\ OneOutcome(outcome')
              /\ pc' = "done"
              /\ browser' = (IF Executed("launch") THEN "closed" ELSE "null")]_vars

\* A call has returned a reference to its caller, its browser closed.
C23_Witness ==
    /\ Settled
    /\ outcome.kind = "Returned"
    /\ browser = "closed"
    /\ Executed("return bookingId")

\* The number of times the call has run page.screenshot to its end.
ScreenshotsTaken == Cardinality({i \in 1..Len(trace) : trace[i] = StepOf("screenshot")})

\* C24: a call takes at most one screenshot and has one file on disk for
\* it; it takes it only after it probed the error element and found none
\* and read a non-empty reference; and a call that is ending with an error has
\* written no file.
C24_ScreenshotOnlyOnSuccess ==
    /\ ScreenshotsTaken <= 1
    /\ Cardinality(disk) = ScreenshotsTaken
    /\ ScreenshotsTaken = 1 =>
           /\ ProbedAbsent
           /\ Executed("read bookingId")
           /\ ~Falsy(mem.bookingId)
           /\ mem.screenshotPath \in disk
    /\ Failed => disk = {}

\* The screenshot has just been written and the call has not yet returned.
C24_Witness ==
    /\ pc = "body"
    /\ What = "return bookingId"
    /\ ScreenshotsTaken = 1
    /\ disk = {ScreenshotPath(MaxClock)}

\* C25: when the handler has finished after a call that returned a
\* reference, it has sent the screenshot the call wrote to the chat and the
\* file is no longer on disk.
C25_ScreenshotDeliveredThenDeleted ==
    (handler.at = "done" /\ outcome.kind = "Returned") =>
        /\ mem.screenshotPath \in handler.photos
        /\ mem.screenshotPath \notin disk
        /\ disk = {}

\* The statements that fill the booking form, in the order the claim gives:
\* usage type, start time, end time, attendee count, charge group, purpose,
\* and the reading of each checkbox, which its click or its skip follows.
FormSteps ==
    <<"select usageType", "select from", "select to", "type attendees",
      "select chargeGroup", "type purpose", "read doorAccess", "read aircon">>

\* The create-booking button has been clicked.
Submitted == Executed("click createBooking")

\* The rows of Prog that have run.
Ran == {trace[i] : i \in 1..Len(trace)}

\* C26: at every moment the form steps that have run are an initial part of
\* the claimed order, so that they run in that order; the create-booking
\* button is clicked at most once, and only when all eight steps have run and
\* the form holds what was asked for; and an attempt in which a lookup found
\* its element missing, or which ended at a statement of the form stage, has
\* never clicked the button.
C26_FormFilledInOrderThenSubmitted ==
    LET ran == Ran
        submitted == StepOf("click createBooking") \in ran
    IN  /\ \A k \in 2..Len(FormSteps) :
               StepOf(FormSteps[k]) \in ran => StepOf(FormSteps[k - 1]) \in ran
        /\ submitted =>
               /\ Cardinality({i \in 1..Len(trace) :
                                  trace[i] = StepOf("click createBooking")}) = 1
               /\ \A k \in 1..Len(FormSteps) : StepOf(FormSteps[k]) \in ran
               /\ form.usage = loc.usageTypeString
               /\ form.from = loc.start_time_form_value
               /\ form.to = loc.end_time_form_value
               /\ form.attendees = req.userCount
               /\ form.chargeGroup = "1"
               /\ form.purpose = req.purpose
               /\ form.door = req.doorAccess
               /\ form.aircon = req.aircon
        /\ mem.missing # "" => ~submitted
        /\ (Failed /\ ip \in 1..NumSteps /\ Prog[ip].stage = "form") => ~submitted

\* An attempt ended because an element of the form was missing after some
\* of the form had been filled.
C26_Witness ==
    /\ Settled
    /\ outcome = Err("ExpectedElementNotFound", <<"Purpose textarea not found.">>)
    /\ mem.missing # ""
    /\ Executed("select chargeGroup")
    /\ ~Submitted

\* The year, month and day of startTime as the request wrote them.
StartYear == Field(Field(req.startTime, 1), 1)

StartMonth == Field(Field(req.startTime, 1), 2)

StartDay == Field(Field(req.startTime, 1), 3)

\* The call passed the checks and its start date is a day of its month.
ValidStartDate ==
    /\ pc # "idle"
    /\ Validate(req) = ""
    /\ CellExists(StripLeadingZeros(StartMonth), StripLeadingZeros(StartDay))

\* What both date selections leave in the search form: the year as written,
\* the month and the day of the start date without their leading zeros.
SelectedDate == <<StartYear, StripLeadingZeros(StartMonth), StripLeadingZeros(StartDay)>>

\* C27: for a call with a valid start date, the month and year dropdowns of
\* the calendar hold the stripped month and the year as written once they
\* have been set, for the start date and for the end date; the day clicked
\* sets each of the two dates to year, stripped month, stripped day of the
\* start date; and the prefix the slot is matched on is the year, the month
\* and the day as written, zero-padded, which is the id the portal gives the
\* selected day.
C27_CalendarStrippedSelectorPadded ==
    ValidStartDate =>
        LET ran == Ran
        IN  /\ (StepOf("select year start") \in ran /\ StepOf("click day start") \notin ran) =>
                   (form.calMonth = SelectedDate[2] /\ form.calYear = StartYear)
            /\ StepOf("click day start") \in ran => form.startDate = SelectedDate
            /\ (StepOf("select year end") \in ran /\ StepOf("click day end") \notin ran) =>
                   (form.calMonth = SelectedDate[2] /\ form.calYear = StartYear)
            /\ StepOf("click day end") \in ran => form.endDate = SelectedDate
            /\ (pc = "body" /\ ip >= StepOf("divAvailable")) =>
                   /\ DivAvailString = StartYear \o StartMonth \o StartDay
                   /\ DivAvailString = PortalId(form.startDate)
            /\ StepOf("divAvailable") \in ran => DivAvailString \in AvailableIds(form, held)

\* The slot of 2024-09-07 was found and clicked after 9 and 7 were given to
\* the calendar.
C27_Witness ==
    /\ Executed("click divAvailable")
    /\ Field(req.startTime, 1) = D1
    /\ form.startDate = << <<2024>>, <<9>>, <<7>> >>
    /\ form.endDate = form.startDate

\* The failure kinds of the classification and the class that stands for
\* each; BookingFailed is the plain Error.
FailureKinds == {"InvalidBookingTimeException", "SlotTakenException", "Error"}

\* C28: every text of the error element, null and blank included, ends the
\* call with an error of exactly one of the three kinds; the kind is the one
\* of the first rule that applies to the trimmed text, in the order no text,
\* invalid time, slot taken, anything else; and a text with both an
\* invalid-time message and the slot-taken message is an invalid time.
C28_ClassificationTotalAndOrdered ==
    ErrorTextRead =>
        LET m == Trim(mem.raw.s)
            invalid == Includes(m, S30) \/ Includes(m, ELS)
            taken == Includes(m, SLOT)
        IN  /\ pending.kind \in FailureKinds
            /\ pending.value = NoValue
            /\ (mem.raw.null \/ m = <<>>) =>
                   pending = Err("Error", <<"Booking failed with an unknown error (no message).">>)
            /\ (~mem.raw.null /\ m # <<>>) =>
                   /\ pending.kind = "InvalidBookingTimeException" <=> invalid
                   /\ pending.kind = "SlotTakenException" <=> (taken /\ ~invalid)
                   /\ pending.kind = "Error" <=> (~taken /\ ~invalid)
            /\ (invalid /\ taken) => pending = Err("InvalidBookingTimeException", m)
            /\ Settled => outcome = pending

\* A text with the slot-taken message first and an invalid-time message after
\* it was classified as an invalid time.
C28_Witness ==
    /\ Settled
    /\ ErrorTextRead
    /\ Len(mem.raw.s) = 3
    /\ mem.raw.s[1] = SLOT
    /\ mem.raw.s[3] = ELS
    /\ outcome.kind = "InvalidBookingTimeException"

\* The error element was probed and was there.
ProbedPresent == Executed("errorMsgElement") /\ mem.errorMsgElement

\* C29: once the probe has found the error element, the call reads no
\* reference, writes no screenshot and neither returns nor has returned,
\* whatever the reference table holds; and a call that returned a reference
\* had probed the error element and found none.
C29_ErrorElementPrecludesSuccess ==
    /\ Executed("errorMsgElement") => mem.errorMsgElement = ErrorShown(page.verdict)
    /\ ProbedPresent =>
           /\ ~Executed("read bookingId")
           /\ mem.bookingId = Undefined
           /\ disk = {}
           /\ pending.kind # "Returned"
           /\ outcome.kind # "Returned"
    /\ (outcome.kind = "Returned" \/ pending.kind = "Returned") => ProbedAbsent

\* The page showed the error element and a reference table with a reference
\* in its second cell, and the call ended with an error.
C29_Witness ==
    /\ Settled
    /\ ProbedPresent
    /\ \E c \in TableCells(page.verdict) : Len(c) >= 2 /\ Trim(c[2]) # <<>>
    /\ outcome.kind = "Error"

\* C30: the statement that clicks the day has clicked a cell, one whose text
\* is the stripped day, for the start date and for the end date, so that the
\* date is set; and view availability is clicked only with both dates set
\* by such a click.
C30_EachDateClicksOneCell ==
    /\ Executed("click day start") =>
           (form.startDate # <<>> /\ form.startDate[3] = loc.day_parsed)
    /\ Executed("click day end") =>
           (form.endDate # <<>> /\ form.endDate[3] = loc.day_parsed)
    /\ Executed("click viewAvailability") =>
           (form.startDate # <<>> /\ form.endDate # <<>>)

\* What C31 lists, read off the arguments alone: startTime or endTime lacks
\* its date or its time part.
LacksPart(r) ==
    \/ Falsy(Field(r.startTime, 1)) \/ Falsy(Field(r.startTime, 2))
    \/ Falsy(Field(r.endTime, 1)) \/ Falsy(Field(r.endTime, 2))

\* LacksPart without the date part of endTime.
LacksCheckedPart(r) ==
    \/ Falsy(Field(r.startTime, 1)) \/ Falsy(Field(r.startTime, 2))
    \/ Falsy(Field(r.endTime, 2))

\* The date of startTime lacks its year, month or day.
LacksDateField(r) ==
    \E i \in 1..3 : Falsy(Field(Field(r.startTime, 1), i))

\* usageType is empty or no key of USAGE_TYPES.
BadUsageType(r) == r.usageType \notin UsageTypeKeys

\* No entry of VENUES has locationID as its id.
NoVenue(r) ==
    r.locationHalf # 0 \/ ~(\E i \in 1..Len(VENUES) : VENUES[i].id = r.locationID)

\* The call was rejected, or will be, with nothing launched and the portal
\* untouched.
FailsBeforeLaunch ==
    /\ pc \in {"idle", "done"}
    /\ browser = "null"
    /\ trace = <<>>
    /\ form = NoForm
    /\ page = NoPage
    /\ disk = {}
    /\ pc = "done" => outcome.kind = "Error"

EndDateVariants(r) ==
    {[r EXCEPT !.endTime = <<d>> \o Tail(r.endTime)] : d \in EndDates}

\* The window on the start date that the times of the request describe.
SameDayWindow(r) ==
    Window(Field(r.startTime, 1), Field(r.startTime, 2)[1], Field(r.endTime, 2)[1])

\* C32: whatever the date part of endTime is, the checks give the same
\* answer and the try block works from the same locals, so every step acts
\* on the same values; the end-date calendar is set to the start date; and
\* the booking the portal creates lies on the start date, from the time of
\* startTime to the time of endTime.
C32_EndDateHasNoInfluence ==
    /\ \A r2 \in EndDateVariants(req) :
          /\ Validate(r2) = Validate(req)
          /\ (pc # "idle" /\ Validate(req) = "") => loc = Locals(r2)
          /\ (pc = "done" /\ Validate(req) # "") => outcome = Err("Error", <<Validate(r2)>>)
    /\ LET ran == Ran
       IN  /\ StepOf("click day start") \in ran => form.startDate = SelectedDate
           /\ StepOf("click day end") \in ran => form.endDate = SelectedDate
           /\ StepOf("click createBooking") \in ran =>
                  /\ form.bookDate = Field(req.startTime, 1)
                  /\ FormWindow(form) = SameDayWindow(req)
    /\ page.created # {} => page.created = {SameDayWindow(req)}

\* A call from 01:00 on 2024-09-07 to 02:00 on 2024-09-08 searched from the
\* 7th to the 7th and was given the hour from 01:00 to 02:00 on the 7th.
C32_Witness ==
    /\ pc = "done"
    /\ req.startTime = DT(D1, 1)
    /\ req.endTime = DT(D1After, 2)
    /\ form.endDate = form.startDate
    /\ page.created = {Window(D1, 1, 2)}
    /\ outcome.kind = "Returned"

\* bookSlot was invoked.
Invoked == pc # "uncalled"

\* The sender's telegram id is the telegram_id of an entry of the loaded
\* credentials.
Listed(c) ==
    /\ c.file.loaded /\ c.file.hasUsers
    /\ c.from.present
    /\ \E i \in 1..Len(c.file.users) : c.file.users[i].telegram_id = c.from.id

\* The venue word names a venue and date and times are real ones.
ValidArguments(c) ==
    /\ c.args.length >= 5
    /\ \E i \in 1..Len(VENUES) : VENUES[i].name = c.args.venue
    /\ c.args.date \in {D1, D2}
    /\ c.args.startTime \in {<<t>> : t \in Times}
    /\ c.args.endTime \in {<<t>> : t \in Times}

\* C33: bookSlot is invoked only for a sender listed in the loaded
\* credentials, with the username and password of an entry that carries the
\* sender's id, for the venue the command names and the date and times it
\* gives, all valid; for any other sender or an invalid argument the call is
\* never made, no browser is launched, and once the handler is done the chat
\* holds a refusal or an apology.
C33_BookSlotOnlyForListedSender ==
    /\ Invoked =>
          /\ Listed(cmd) /\ ValidArguments(cmd)
          /\ \E i \in 1..Len(cmd.file.users) :
                /\ cmd.file.users[i].telegram_id = cmd.from.id
                /\ req.credentials.utownfbs_username = cmd.file.users[i].utownfbs_username
                /\ req.credentials.utownfbs_password = cmd.file.users[i].utownfbs_password
          /\ \E i \in 1..Len(VENUES) :
                VENUES[i].name = cmd.args.venue /\ VENUES[i].id = req.locationID
          /\ req.startTime = <<cmd.args.date, cmd.args.startTime>>
          /\ req.endTime = <<cmd.args.date, cmd.args.endTime>>
          /\ Validate(req) = ""
    /\ (~Listed(cmd) \/ ~ValidArguments(cmd)) =>
          /\ ~Invoked
          /\ browser = "null" /\ trace = <<>>
          /\ cmd.at \notin {"status", "called"}
          /\ cmd.at = "done" =>
                (cmd.unhandled \/ (Len(cmd.chat) = 1 /\ cmd.chat[1] # "Processing FBS booking request..."))

\* Sender 2, listed second in a file of two, named the Gym and bookSlot was
\* called for venue 10 with that entry's username and password.
C33_Witness ==
    /\ cmd.at = "called"
    /\ pc = "body"
    /\ cmd.from.id = 2
    /\ cmd.file = Credentials(<<User(1, "a1", "p1"), User(2, "a2", "p2")>>)
    /\ req.credentials = [utownfbs_username |-> "a2", utownfbs_password |-> "p2"]
    /\ req.locationID = 10

\* The object in ctx.session.currentBooking.
CurrentBooking == cal.flow[cal.current]

\* The session is at step `step`.
AtStep(step) == cal.current # 0 /\ CurrentBooking.step = step

\* The handlers inside onBookingDataReady.
InReady == {h \in Handlers : cal.run[h].at \in {"refused", "post", "summary", "failed"}}

\* C34: whenever the step of the session is "confirm", startDate, startTime,
\* endDate and endTime are all set; and onBookingDataReady is invoked only
\* from step "confirm" on "confirm_booking", with the dates, the times and
\* venue_id all present.
C34_ConfirmHasEveryField ==
    /\ AtStep("confirm") =>
          /\ CurrentBooking.startDate # 0
          /\ CurrentBooking.startTime # 0
          /\ CurrentBooking.endDate # 0
          /\ CurrentBooking.endTime # 0
    /\ \A h \in InReady :
          /\ cal.run[h].branch = "confirm"
          /\ cal.run[h].args.venue_id # 0
          /\ cal.run[h].args.start_date # 0
          /\ cal.run[h].args.start_time # 0
          /\ cal.run[h].args.end_date # 0
          /\ cal.run[h].args.end_time # 0

\* C35: no flow, from startBookingFlow to the deletion of currentBooking,
\* sends more than one booking-creation request, however the callback
\* queries interleave.
C35_OneCreationRequestPerFlow ==
    \A f \in Flows : cal.posts[f] <= 1

\* The booking and the interval from `from` to `to`, both half-open, overlap.
Clashes(booking, from, to) == booking.start < to /\ from < booking.end

\* C36: the interval a session at step "confirm" holds, with the end date on
\* the start date or after it, ends after it starts and overlaps no booking of
\* the fetched list; a booking that ends where the interval starts, or starts
\* where it ends, does not overlap.
C36_ConfirmedIntervalIsFree ==
    (/\ AtStep("confirm")
     /\ CurrentBooking.startDate # 0 /\ CurrentBooking.startTime # 0
     /\ CurrentBooking.endDate >= CurrentBooking.startDate) =>
        LET from == Instant(CurrentBooking.startDate, CurrentBooking.startTime)
            to == Instant(CurrentBooking.endDate, CurrentBooking.endTime)
        IN /\ to > from
           /\ \A booking \in cal.bookings : ~Clashes(booking, from, to)

\* updateVenueBookings returned and the call before it returned too.
SecondOfTwo ==
    /\ sheets.at = "idle"
    /\ sheets.ended = "returned"
    /\ sheets.previous # NoData

\* C37: a call that follows a call with the same bookings and venues rewrites
\* neither the Summary sheet nor a timetable and leaves the stored hashes as
\* they were; a call that follows a call with other bookings rewrites the
\* Summary sheet and the timetables of the venues whose bookings changed, and
\* no other timetable.
C37_RewritesOnlyWhatChanged ==
    SecondOfTwo =>
        /\ sheets.previous = sheets.data =>
              /\ sheets.rewrote = {}
              /\ StoredHashes(sheets) = sheets.hashesBefore
        /\ sheets.previous # sheets.data =>
              sheets.rewrote =
                  {SummarySheet} \cup {v \in SheetVenues : sheets.previous[v] # sheets.data[v]}

\* The second of two calls with the same booking for venue 1 returned and
\* rewrote nothing.
C37_Witness ==
    /\ SecondOfTwo
    /\ sheets.previous = sheets.data
    /\ sheets.data[1] = 1
    /\ sheets.rewrote = {}
    /\ sheets.summary = SummaryRows(sheets.data)

\* C38: between the calls, whenever the stored global hash is the hash of the
\* bookings and venues last given the Summary sheet holds exactly their rows,
\* and whenever a venue's stored hash is the hash of its data the venue's
\* timetable is the one written from that data; the calls before may have
\* failed partway.
C38_StoredHashMeansSheetCurrent ==
    (sheets.at = "idle" /\ sheets.data # NoData) =>
        /\ sheets.globalHash = CalculateGlobalHash(sheets.data) =>
              sheets.summary = SummaryRows(sheets.data)
        /\ \A v \in SheetVenues :
              sheets.venueHash[v] = CalculateVenueHash(v, sheets.data) =>
                  sheets.timetable[v] = Timetable(v, sheets.data)

\* The attempts of a fetch so far are at most three and none follows a
\* success.
AttemptsBounded(tried) ==
    /\ Len(tried) <= 3
    /\ \A i \in 1..Len(tried) : tried[i] = Fetched => i = Len(tried)

\* The third attempt of a fetch failed.
ThirdFailed(tried) == Len(tried) = 3 /\ tried[3] # Fetched

\* What holds of every state of a call.
C39_AtMostThreeAttempts ==
    /\ AttemptsBounded(sync.tried.venues)
    /\ AttemptsBounded(sync.tried.bookings)
    /\ Len(sync.tried.bookings) > 0 =>
          (sync.tried.venues # <<>> /\ sync.tried.venues[Len(sync.tried.venues)] = Fetched)
    /\ ThirdFailed(sync.tried.venues) =>
          /\ sync.at = "done"
          /\ sync.outcome = Thrown(sync.tried.venues[3])
          /\ sync.updates = 0
    /\ ThirdFailed(sync.tried.bookings) =>
          /\ sync.at = "done"
          /\ sync.outcome = Thrown(sync.tried.bookings[3])
          /\ sync.updates = 0

\* The call has returned or thrown.
SyncDone == sync.at = "done"

====
